---- MODULE Spec2Model ----
\* Stream multiplexer of cetl (connector.NewMuxReader): one producer goroutine
\* that opens the sources in list order and streams them through an io.Pipe,
\* and one consumer that calls Read, Close, Current and AwaitBoundary.
\* CSV decoder of cetl (transform.NewCSVDecoder): a consumer of the multiplexer
\* that reads records through an encoding/csv reader and yields them with the
\* SrcMeta it samples from Current().
EXTENDS Integers, Sequences, FiniteSets, TLC

\* ---------------------------------------------------------------- bounds
MaxSources == 2        \* longest source list
MaxLen == 3            \* longest payload of a source, in bytes
MaxBuf == 2            \* largest buffer the consumer passes to Read
ChunkSize == 2         \* len(buf) of the producer, scaled down from 32*1024
MaxRows == 3           \* most records of the CSV sources of one list, all together
BufioSize == 2         \* buffer of the csv reader's bufio.Reader, scaled down from 4096
MaxCloses == 2         \* most calls of the iterator's Close
MaxProcs == 2          \* most goroutines that use the opener registry at once

\* ------------------------------------------------------- program constants
BoundaryCap == 1       \* make(chan SrcMeta, 1)
Comma == 44            \* optComma := ','
NL == 10               \* '\n', the record terminator of the CSV sources
ByteH == 104           \* 'h', the name of the one column of the CSV sources
ByteX == 120           \* 'x', the value of a data field

\* ------------------------------------------------------------------ values
Min(a, b) == IF a < b THEN a ELSE b

\* error values; name is the source a wrapped error names
Err(kind, name) == [kind |-> kind, name |-> name]
NoErr == Err("nil", "")
EOF == Err("EOF", "")
ErrClosedPipe == Err("io: read/write on closed pipe", "")
Canceled == Err("context canceled", "")
injectedError == Err("injected read error", "")

\* fmt.Errorf("open %s: %w", op.Name(), err)
OpenError(name) == Err("open", name)

\* fmt.Errorf("read %s: %w", op.Name(), rerr)
ReadError(name) == Err("read", name)

SrcMeta(name, off) == [Name |-> name, ByteOffset |-> off]
ZeroMeta == SrcMeta("", 0)

SrcName(k) == <<"a", "b", "c", "d", "e">>[k]

\* the payload of source k: bytes that occur nowhere else in the stream
Payload(k, len) == [j \in 1..len |-> 10 * k + j]

\* fakeOpener{name, data, openErr, readErrN}; readErrN < 0 injects no error
fakeOpener(k) ==
    { [name |-> SrcName(k), data |-> Payload(k, l), openErr |-> oe, readErrN |-> r] :
        l \in 0..MaxLen, oe \in BOOLEAN, r \in -1..MaxLen }

Faulty(op) == op.openErr \/ op.readErrN >= 0

\* The error is injected inside the payload. A source that fails to open is
\* never read, and the sources behind the first faulty one are never opened:
\* those carry the full-length payload and no fault.
SourceOK(s, op) ==
    /\ op.readErrN <= Len(op.data)
    /\ op.openErr => op.readErrN = -1 /\ Len(op.data) = MaxLen
    /\ (\E j \in 1..Len(s) : Faulty(s[j])) => ~Faulty(op) /\ Len(op.data) = MaxLen

RECURSIVE SourceListsOfLen(_)
SourceListsOfLen(len) ==
    IF len = 0 THEN { <<>> }
    ELSE UNION { { Append(s, op) : op \in { o \in fakeOpener(len) : SourceOK(s, o) } } :
                 s \in SourceListsOfLen(len - 1) }

SourceLists == UNION { SourceListsOfLen(len) : len \in 0..MaxSources }

VARIABLES
    ops,            \* the source list given to NewMuxReader
    pc,             \* position of the producer goroutine
    idx,            \* index of the range loop over ops
    rcs,            \* the readers Open has returned, in order
    openLog,        \* indices Open was called on, in order
    meta,           \* the goroutine's local meta
    buf,            \* the goroutine's chunk buffer
    nRead,          \* result of the last rc.Read: byte count
    rerr,           \* result of the last rc.Read: error
    pending,        \* slice the pipe writer is still offering to the reader
    obtained,       \* every byte rc.Read has returned with n > 0
    current,        \* m.current (atomic.Value): <<>> while nil
    curLog,         \* every value stored into m.current, in order
    boundary,       \* buffer of the m.boundary channel
    boundaryClosed, \* m.boundary has been closed
    pubLog,         \* every value sent on m.boundary, in order
    pdone,          \* pipe.done is closed
    prerr,          \* pipe.rerr
    pwerr,          \* pipe.werr
    got,            \* bytes Read has returned to the consumer
    gotSrc,         \* for each byte of got, the index of its source
    lastRead,       \* result of the consumer's last Read
    lastAwait,      \* the consumer's last AwaitBoundary call and its result
    awaited,        \* boundaries AwaitBoundary has returned, in order
    optHeader,      \* CSVDecoderOptions.Header: <<>> when the header is inferred
    dpc,            \* position of the decoder's consumer: absent, decode, next, failed
    csvReader,      \* the csv.Reader over the multiplexer and its bufio.Reader
    it,             \* the fields of the csvRowIterator
    decodeErr,      \* the error Decode has returned
    nextResult,     \* the last Next call: none, running, true, false
    closeCalls,     \* number of calls of the iterator's Close
    parsedLog,      \* every record csvReader.Read has returned without error
    yielded,        \* every record Next has yielded, with its SrcMeta
    callerNames,    \* a slice Names() returned, after the caller wrote into it
    tpc,            \* position of the caller of Transform: absent, transform, iterate, failed
    mapFn,          \* the Mapper[T] given to Transform
    dec,            \* the stubDecoder of the transformer
    inner,          \* the stubRecordIterator the decoder returns
    mit,            \* the fields of the mappedIterator
    transformErr,   \* the error Transform has returned
    mapLog,         \* every record mapFn was called with, in order
    mapped,         \* every value Struct() returned after a true Next, in order
    mNext,          \* the last Next call of the mappedIterator: none, true, false
    openerRegistry, \* the registry: pairs of a scheme and the factory registered for it
    regMu,          \* the sync.RWMutex of the registry: its writer and its readers
    regProcs,       \* the goroutines that call RegisterOpener or OpenerFromSpec
    ctxCanceled,    \* the context given to NewMuxReader has been cancelled
    ctxAware,       \* the openers check the context in Open (openers.File)
    decCtx,         \* the context given to Decode and the goroutine that waits for it
    priorRun        \* what an earlier run over the same sources and options gave: <<>> when none

mapVars == <<tpc, mapFn, dec, inner, mit, transformErr, mapLog, mapped, mNext>>
regVars == <<openerRegistry, regMu, regProcs>>
envVars == <<regVars, ctxCanceled, ctxAware, decCtx, priorRun>>
userVars == <<callerNames, mapVars, envVars>>

decVars == <<optHeader, dpc, csvReader, it, decodeErr, nextResult, closeCalls,
             parsedLog, yielded, userVars>>

vars == <<ops, pc, idx, rcs, openLog, meta, buf, nRead, rerr, pending, obtained, current,
          curLog, boundary, boundaryClosed, pubLog, pdone, prerr, pwerr, got,
          gotSrc, lastRead, lastAwait, awaited, decVars>>

producerVars == <<pc, idx, rcs, openLog, meta, buf, nRead, rerr, obtained>>
consumerVars == <<got, gotSrc, lastRead, lastAwait, awaited, decVars>>
boundaryVars == <<boundary, boundaryClosed, pubLog>>
pipeVars == <<pdone, prerr, pwerr>>

\* -------------------------------------------------------------- io.Pipe
\* onceError.Store: the first error stored wins
onceStore(cur, e) == IF cur = NoErr THEN e ELSE cur

readCloseError == IF prerr = NoErr /\ pwerr # NoErr THEN pwerr ELSE ErrClosedPipe

writeCloseError == IF pwerr = NoErr /\ prerr # NoErr THEN prerr ELSE ErrClosedPipe

\* pw.CloseWithError(e); pw.Close() is CloseWithError(nil)
CloseWithError(e) ==
    /\ pwerr' = onceStore(pwerr, IF e = NoErr THEN EOF ELSE e)
    /\ pdone' = TRUE
    /\ prerr' = prerr

\* ------------------------------------------------- inMemoryReadCloser
NewRc(k, op) ==
    [src |-> k, b |-> op.data, pos |-> 0, injectErrorAt |-> op.readErrN,
     err |-> NoErr, closed |-> FALSE]

\* inMemoryReadCloser.Read(p) with len(p) = size: [n, err, data, rc]
rcRead(rc, size) ==
    IF rc.err # NoErr
    THEN [n |-> 0, err |-> rc.err, data |-> <<>>, rc |-> rc]
    ELSE IF rc.injectErrorAt >= 0 /\ rc.pos >= rc.injectErrorAt
    THEN [n |-> 0, err |-> injectedError, data |-> <<>>,
          rc |-> [rc EXCEPT !.err = injectedError]]
    ELSE IF rc.pos >= Len(rc.b)
    THEN [n |-> 0, err |-> EOF, data |-> <<>>, rc |-> rc]
    ELSE LET hi == IF rc.injectErrorAt > 0 THEN rc.injectErrorAt ELSE Len(rc.b)
             cnt == Min(size, hi - rc.pos)
         IN [n |-> cnt, err |-> NoErr,
             data |-> SubSeq(rc.b, rc.pos + 1, rc.pos + cnt),
             rc |-> [rc EXCEPT !.pos = rc.pos + cnt]]

\* A reader may also return its last bytes together with the error or the
\* io.EOF that the next call would return (n > 0 and err != nil at once).
rcReadEager(rc, size) ==
    LET first == rcRead(rc, size)
        second == rcRead(first.rc, size)
    IN IF first.n > 0 /\ second.n = 0
       THEN [first EXCEPT !.err = second.err, !.rc = second.rc]
       ELSE first

rcReadResults(rc, size) == { rcRead(rc, size), rcReadEager(rc, size) }

\* mutant of rcClose: the reader is left open
rcCloseForgotten(s) == s

\* rc.Close() on the reader the goroutine holds
rcClose(s) == [s EXCEPT ![Len(s)].closed = TRUE]

OpenHandles == { i \in 1..Len(rcs) : ~rcs[i].closed }

\* ----------------------------------------------------- decoder values
\* a csvRowIterator that has not been built
NilIterator ==
    [header |-> <<>>, atStart |-> FALSE, hasPending |-> FALSE, pending |-> <<>>,
     pendingSrcMeta |-> ZeroMeta, current |-> <<>>, currentSrcMeta |-> ZeroMeta,
     lastSourceMeta |-> ZeroMeta, decoderError |-> NoErr, invertedIndex |-> {}]

\* csv.NewReader(rc): pos bytes of the stream are consumed, held bytes of the
\* line being read are taken out of the bufio buffer, err is the error the
\* bufio.Reader holds
NewReader == [pos |-> 0, held |-> 0, err |-> NoErr, FieldsPerRecord |-> 0]

\* no decoder is attached to the multiplexer
DecoderAbsent ==
    /\ optHeader = <<>>
    /\ dpc = "absent"
    /\ csvReader = NewReader
    /\ it = NilIterator
    /\ decodeErr = NoErr
    /\ nextResult = "none"
    /\ closeCalls = 0
    /\ parsedLog = <<>>
    /\ yielded = <<>>
    /\ callerNames = <<>>

\* the zero value of the type the records are mapped to: a pair of strings
ZeroPair == [A |-> <<>>, B |-> <<>>]

\* a mappedIterator that has not been built
NilMapped == [built |-> FALSE, cur |-> ZeroPair, err |-> NoErr, done |-> FALSE]

\* a stubRecordIterator over recs that reports err; nextCalls counts the calls
\* of its Next
stubRecordIterator(recs, err) ==
    [recs |-> recs, idx |-> 0, err |-> err, closed |-> FALSE, nextCalls |-> 0]

\* no transformer is in use
MapAbsent ==
    /\ tpc = "absent"
    /\ mapFn = [nil |-> TRUE, failsOn |-> {}]
    /\ dec = [err |-> NoErr, called |-> 0]
    /\ inner = stubRecordIterator(<<>>, NoErr)
    /\ mit = NilMapped
    /\ transformErr = NoErr
    /\ mapLog = <<>>
    /\ mapped = <<>>
    /\ mNext = "none"

\* sync.RWMutex, unlocked: no writer (0) and no reader
Unlocked == [writer |-> 0, readers |-> {}]

\* nothing is registered and no goroutine uses the registry
RegAbsent ==
    /\ openerRegistry = {}
    /\ regMu = Unlocked
    /\ regProcs = <<>>

\* the contexts are never cancelled, and the openers do not look at them
CtxAbsent ==
    /\ ctxCanceled = FALSE
    /\ ctxAware = FALSE
    /\ decCtx = "background"

\* the sources have not been decoded before
RunAbsent == priorRun = <<>>

EnvAbsent == RegAbsent /\ CtxAbsent /\ RunAbsent

\* ---------------------------------------------------------------- Init
\* NewMuxReader has returned and the goroutine has not run yet
Started ==
    /\ pc = "open"
    /\ idx = 1
    /\ rcs = <<>>
    /\ openLog = <<>>
    /\ meta = ZeroMeta
    /\ buf = [j \in 1..ChunkSize |-> 0]
    /\ nRead = 0
    /\ rerr = NoErr
    /\ pending = <<>>
    /\ obtained = <<>>
    /\ current = <<>>
    /\ curLog = <<>>
    /\ boundary = <<>>
    /\ boundaryClosed = FALSE
    /\ pubLog = <<>>
    /\ pdone = FALSE
    /\ prerr = NoErr
    /\ pwerr = NoErr
    /\ got = <<>>
    /\ gotSrc = <<>>
    /\ lastRead = [called |-> FALSE, n |-> 0, err |-> NoErr]
    /\ lastAwait = [called |-> FALSE, ctxDone |-> FALSE, afterEOF |-> FALSE,
                    meta |-> ZeroMeta, err |-> NoErr]
    /\ awaited = <<>>

Init ==
    /\ ops \in SourceLists
    /\ Started
    /\ DecoderAbsent
    /\ MapAbsent
    /\ EnvAbsent

\* ------------------------------------------------- producer goroutine
\* mutant of newSourceMeta: the offset of the previous source is carried over
newSourceMetaKeepOffset(op) == SrcMeta(op.name, meta.ByteOffset)

\* meta := SrcMeta{Name: op.Name(), ByteOffset: 0}
newSourceMeta(op) == SrcMeta(op.name, 0)

\* mutant of Open: a source that fails to open is skipped (continue, not return)
OpenSkipsFailed ==
    /\ pc = "open"
    /\ idx <= Len(ops)
    /\ openLog' = Append(openLog, idx)
    /\ IF ops[idx].openErr
       THEN /\ idx' = idx + 1
            /\ pc' = "open"
            /\ UNCHANGED <<rcs, meta>>
       ELSE /\ rcs' = Append(rcs, NewRc(idx, ops[idx]))
            /\ meta' = newSourceMeta(ops[idx])
            /\ pc' = "store"
            /\ idx' = idx
    /\ UNCHANGED <<ops, buf, nRead, rerr, pending, obtained, current, curLog,
                   boundaryVars, pipeVars, consumerVars>>

\* op.Open(ctx) returns an error: the opener fails by itself, or it checks
\* the context first (openers.File) and the context is cancelled
openFails(op) == op.openErr \/ (ctxAware /\ ctxCanceled)

\* for _, op := range ops { rc, err := op.Open(ctx) ... meta := SrcMeta{op.Name(), 0}
Open ==
    /\ pc = "open"
    /\ idx <= Len(ops)
    /\ openLog' = Append(openLog, idx)
    /\ IF openFails(ops[idx])
       THEN /\ CloseWithError(OpenError(ops[idx].name))
            /\ pc' = "pwClose"
            /\ UNCHANGED <<rcs, meta>>
       ELSE /\ rcs' = Append(rcs, NewRc(idx, ops[idx]))
            /\ meta' = newSourceMeta(ops[idx])
            /\ pc' = "store"
            /\ UNCHANGED pipeVars
    /\ UNCHANGED <<ops, idx, buf, nRead, rerr, pending, obtained, current, curLog,
                   boundaryVars, consumerVars>>

\* the range loop is over: the goroutine returns and its defers run
LoopEnd ==
    /\ pc = "open"
    /\ idx > Len(ops)
    /\ pc' = "pwClose"
    /\ UNCHANGED <<ops, idx, rcs, openLog, meta, buf, nRead, rerr, pending, obtained,
                   current, curLog, boundaryVars, pipeVars, consumerVars>>

\* m.current.Store(meta) for the new source
StoreBoundary ==
    /\ pc = "store"
    /\ current' = <<meta>>
    /\ curLog' = Append(curLog, meta)
    /\ pc' = "publish"
    /\ UNCHANGED <<ops, idx, rcs, openLog, meta, buf, nRead, rerr, pending, obtained,
                   boundaryVars, pipeVars, consumerVars>>

\* mutant of overwriteLatest: a plain send, which waits for room
overwriteLatestBlocking(ch, v) ==
    IF Len(ch) < BoundaryCap
    THEN { [ch |-> Append(ch, v), sent |-> TRUE] } ELSE {}

\* mutant of overwriteLatest: a full mailbox keeps its old value and the new
\* one is lost
overwriteLatestKeepsOldest(ch, v) ==
    IF Len(ch) < BoundaryCap
    THEN { [ch |-> Append(ch, v), sent |-> TRUE] }
    ELSE { [ch |-> ch, sent |-> TRUE] }

\* one iteration of overwriteLatest's select on a channel holding ch:
\* send v if the buffer has room, else drop the oldest value and loop
overwriteLatest(ch, v) ==
    (IF Len(ch) < BoundaryCap
     THEN { [ch |-> Append(ch, v), sent |-> TRUE] } ELSE {})
    \cup
    (IF Len(ch) > 0
     THEN { [ch |-> Tail(ch), sent |-> FALSE] } ELSE {})

\* overwriteLatest(m.boundary, meta), one select iteration per step
PublishBoundary ==
    /\ pc = "publish"
    /\ \E r \in overwriteLatest(boundary, meta) :
        /\ boundary' = r.ch
        /\ pubLog' = IF r.sent THEN Append(pubLog, meta) ELSE pubLog
        /\ pc' = IF r.sent THEN "read" ELSE "publish"
    /\ UNCHANGED <<ops, idx, rcs, openLog, meta, buf, nRead, rerr, pending, obtained,
                   current, curLog, boundaryClosed, pipeVars, consumerVars>>

\* mutant of ShouldWrite: rerr is looked at before the chunk is written
ShouldWriteNoErr(cnt, e) == cnt > 0 /\ e = NoErr

\* if n > 0 { ... }: the chunk is written to the pipe before rerr is looked at
ShouldWrite(cnt, e) == cnt > 0

\* mutant of writeSlice: the whole buffer is written, not buf[:n]
writeSliceWholeBuf(b, cnt) == b

\* buf[:n], the slice handed to m.pw.Write
writeSlice(b, cnt) == SubSeq(b, 1, cnt)

\* mutant of advanceOffset: the offset is set to the size of the last chunk
advanceOffsetAssign(m, cnt) == [m EXCEPT !.ByteOffset = cnt]

\* meta.ByteOffset += int64(n)
advanceOffset(m, cnt) == [m EXCEPT !.ByteOffset = m.ByteOffset + cnt]

\* n, rerr := rc.Read(buf); if n > 0 { meta.ByteOffset += int64(n); m.pw.Write(buf[:n])
RcRead ==
    /\ pc = "read"
    /\ \E r \in rcReadResults(rcs[Len(rcs)], ChunkSize) :
        /\ rcs' = [rcs EXCEPT ![Len(rcs)] = r.rc]
        /\ nRead' = r.n
        /\ rerr' = r.err
        /\ obtained' = obtained \o r.data
        /\ buf' = r.data \o SubSeq(buf, r.n + 1, Len(buf))
        /\ IF ShouldWrite(r.n, r.err)
           THEN /\ meta' = advanceOffset(meta, r.n)
                /\ pending' = writeSlice(buf', r.n)
                /\ pc' = "write"
           ELSE /\ pc' = "check"
                /\ UNCHANGED <<meta, pending>>
    /\ UNCHANGED <<ops, idx, openLog, current, curLog, boundaryVars, pipeVars,
                   consumerVars>>

\* mutant of WriteFail: the write does not notice that the reader is closed
\* and keeps waiting for it
WriteFailKeepsWaiting ==
    /\ pc = "write"
    /\ pending # <<>>
    /\ pdone
    /\ UNCHANGED vars

\* m.pw.Write fails once the pipe is closed and bytes are left to hand off:
\* rc.Close(); pw.CloseWithError(werr); return
WriteFail ==
    /\ pc = "write"
    /\ pending # <<>>
    /\ pdone
    /\ rcs' = rcClose(rcs)
    /\ CloseWithError(writeCloseError)
    /\ pc' = "pwClose"
    /\ UNCHANGED <<ops, idx, openLog, meta, buf, nRead, rerr, pending, obtained, current,
                   curLog, boundaryVars, consumerVars>>

\* mutant of writeReturns: the write is buffered and returns at once
writeReturnsAtOnce(p) == TRUE

\* m.pw.Write returns nil only when the reader has taken the whole slice
writeReturns(p) == p = <<>>

\* mutant of StoreOffset: the advanced offset is not stored after the write
StoreOffsetSkipped ==
    /\ pc = "write"
    /\ writeReturns(pending)
    /\ pc' = "check"
    /\ UNCHANGED <<ops, idx, rcs, openLog, meta, buf, nRead, rerr, pending, obtained,
                   current, curLog, boundaryVars, pipeVars, consumerVars>>

\* m.pw.Write has handed off the whole chunk: m.current.Store(meta)
StoreOffset ==
    /\ pc = "write"
    /\ writeReturns(pending)
    /\ current' = <<meta>>
    /\ curLog' = Append(curLog, meta)
    /\ pc' = "check"
    /\ UNCHANGED <<ops, idx, rcs, openLog, meta, buf, nRead, rerr, pending, obtained,
                   boundaryVars, pipeVars, consumerVars>>

\* if rerr == io.EOF { break } ... rc.Close(): on to the next source
EndOfSource ==
    /\ pc = "check"
    /\ rerr = EOF
    /\ rcs' = rcClose(rcs)
    /\ idx' = idx + 1
    /\ pc' = "open"
    /\ UNCHANGED <<ops, openLog, meta, buf, nRead, rerr, pending, obtained, current,
                   curLog, boundaryVars, pipeVars, consumerVars>>

\* mutant of ReadFail: the goroutine returns without pw.CloseWithError
ReadFailNoAbort ==
    /\ pc = "check"
    /\ rerr # EOF
    /\ rerr # NoErr
    /\ rcs' = rcClose(rcs)
    /\ pc' = "pwClose"
    /\ UNCHANGED <<ops, idx, openLog, meta, buf, nRead, rerr, pending, obtained, current,
                   curLog, boundaryVars, pipeVars, consumerVars>>

\* if rerr != nil { rc.Close(); pw.CloseWithError(read error); return }
ReadFail ==
    /\ pc = "check"
    /\ rerr # EOF
    /\ rerr # NoErr
    /\ rcs' = rcClose(rcs)
    /\ CloseWithError(ReadError(ops[idx].name))
    /\ pc' = "pwClose"
    /\ UNCHANGED <<ops, idx, openLog, meta, buf, nRead, rerr, pending, obtained, current,
                   curLog, boundaryVars, consumerVars>>

\* rerr == nil: the read loop goes round
ReadMore ==
    /\ pc = "check"
    /\ rerr = NoErr
    /\ pc' = "read"
    /\ UNCHANGED <<ops, idx, rcs, openLog, meta, buf, nRead, rerr, pending, obtained,
                   current, curLog, boundaryVars, pipeVars, consumerVars>>

\* mutant of DeferPwClose: the write side is closed with io.ErrClosedPipe
DeferPwCloseWithError ==
    /\ pc = "pwClose"
    /\ CloseWithError(ErrClosedPipe)
    /\ pc' = "drain"
    /\ UNCHANGED <<ops, idx, rcs, openLog, meta, buf, nRead, rerr, pending, obtained,
                   current, curLog, boundaryVars, consumerVars>>

\* defer pw.Close(): registered last, so it runs first
DeferPwClose ==
    /\ pc = "pwClose"
    /\ CloseWithError(NoErr)
    /\ pc' = "drain"
    /\ UNCHANGED <<ops, idx, rcs, openLog, meta, buf, nRead, rerr, pending, obtained,
                   current, curLog, boundaryVars, consumerVars>>

\* mutant of drainAndCloseChannel: the channel is closed with its buffered
\* value left inside
drainAndCloseChannelNoDrain(ch) ==
    [ch |-> ch, closed |-> TRUE]

\* one iteration of drainAndCloseChannel's select: drop a buffered value,
\* or (default) close the channel
drainAndCloseChannel(ch) ==
    IF Len(ch) > 0
    THEN [ch |-> Tail(ch), closed |-> FALSE]
    ELSE [ch |-> ch, closed |-> TRUE]

\* defer drainAndCloseChannel(m.boundary): registered first, so it runs last
DeferDrain ==
    /\ pc = "drain"
    /\ LET r == drainAndCloseChannel(boundary)
       IN /\ boundary' = r.ch
          /\ boundaryClosed' = r.closed
          /\ pc' = IF r.closed THEN "done" ELSE "drain"
    /\ UNCHANGED <<ops, idx, rcs, openLog, meta, buf, nRead, rerr, pending, obtained,
                   current, curLog, pubLog, pipeVars, consumerVars>>

Producer ==
    \/ Open
    \/ LoopEnd
    \/ StoreBoundary
    \/ PublishBoundary
    \/ RcRead
    \/ WriteFail
    \/ StoreOffset
    \/ EndOfSource
    \/ ReadFail
    \/ ReadMore
    \/ DeferPwClose
    \/ DeferDrain

\* ------------------------------------------------------------ consumer
\* muxReader.Current()
Current == IF current = <<>> THEN ZeroMeta ELSE current[1]

\* muxReader.Read(p) with len(p) = size: pipe.read. A closed pipe is seen
\* first; otherwise the reader takes what fits of the slice the writer offers
\* and blocks while no writer is there.
pipeRead(size) ==
    IF pdone
    THEN /\ lastRead' = [called |-> TRUE, n |-> 0, err |-> readCloseError]
         /\ UNCHANGED <<pending, got, gotSrc>>
    ELSE /\ pc = "write"
         /\ pending # <<>>
         /\ LET nr == Min(size, Len(pending))
            IN /\ got' = got \o SubSeq(pending, 1, nr)
               /\ gotSrc' = gotSrc \o [j \in 1..nr |-> idx]
               /\ pending' = SubSeq(pending, nr + 1, Len(pending))
               /\ lastRead' = [called |-> TRUE, n |-> nr, err |-> NoErr]

\* Read called by the consumer itself
Read(size) ==
    /\ pipeRead(size)
    /\ UNCHANGED <<ops, producerVars, current, curLog, boundaryVars, pipeVars,
                   lastAwait, awaited, decVars>>

\* muxReader.Close(): pr.Close() is closeRead(nil)
Close ==
    /\ prerr' = onceStore(prerr, ErrClosedPipe)
    /\ pdone' = TRUE
    /\ UNCHANGED <<ops, producerVars, pending, current, curLog, boundaryVars,
                   pwerr, consumerVars>>

\* the cases of AwaitBoundary's select that are ready: a buffered boundary,
\* the closed channel, ctx.Done()
awaitReady(ch, closed, ctxDone) ==
    (IF Len(ch) > 0 THEN { [meta |-> Head(ch), err |-> NoErr, recv |-> TRUE] } ELSE {})
    \cup
    (IF Len(ch) = 0 /\ closed
     THEN { [meta |-> ZeroMeta, err |-> EOF, recv |-> FALSE] } ELSE {})
    \cup
    (IF ctxDone
     THEN { [meta |-> ZeroMeta, err |-> Canceled, recv |-> FALSE] } ELSE {})

\* muxReader.AwaitBoundary(ctx); ctxDone: ctx is cancelled. The select takes
\* any ready case and blocks while none is.
AwaitBoundary(ctxDone) ==
    /\ \E r \in awaitReady(boundary, boundaryClosed, ctxDone) :
        /\ boundary' = IF r.recv THEN Tail(boundary) ELSE boundary
        /\ awaited' = IF r.recv THEN Append(awaited, r.meta) ELSE awaited
        /\ lastAwait' = [called |-> TRUE, ctxDone |-> ctxDone,
                         afterEOF |-> lastRead.err = EOF,
                         meta |-> r.meta, err |-> r.err]
    /\ UNCHANGED <<ops, producerVars, pending, current, curLog, boundaryClosed,
                   pubLog, pipeVars, got, gotSrc, lastRead, decVars>>

Next ==
    \/ Producer
    \/ \E size \in 1..MaxBuf : Read(size)
    \/ Close
    \/ \E ctxDone \in BOOLEAN : AwaitBoundary(ctxDone)

Spec == Init /\ [][Next]_vars

\* A consumer that never calls AwaitBoundary: it calls Read for as long as it
\* has not closed the reader, and both goroutines keep being scheduled.
ReadOnlyNext ==
    \/ Producer
    \/ \E size \in 1..MaxBuf : Read(size)
    \/ Close

ReadOnlySpec ==
    /\ Init
    /\ [][ReadOnlyNext]_vars
    /\ WF_vars(Producer)
    /\ WF_vars(\E size \in 1..MaxBuf : Read(size))

\* a consumer that reads and closes, at any pace or never; only the producer
\* goroutine is scheduled whenever it can take a step
CloseSpec == Init /\ [][ReadOnlyNext]_vars /\ WF_vars(Producer)

\* ====================================================================
\* CSV decoder on top of the multiplexer
\* ====================================================================
\* csv.ErrFieldCount, wrapped in a csv.ParseError
ErrFieldCount == Err("wrong number of fields", "")

\* fmt.Errorf("unable to infer header from first record: %w", err)
InferError(e) == Err("unable to infer header from first record", e.kind)

\* fmt.Errorf("malformed header: %w", err)
MalformedHeader == Err("malformed header", "")

\* errors.New("Header not provided and failed to infer from stream.")
HeaderMissing == Err("Header not provided and failed to infer from stream.", "")

\* ------------------------------------------------------- CSV sources
\* a record is a sequence of fields, a field a sequence of bytes
HeaderRow == << <<ByteH>> >>
DataRow == << <<ByteX>> >>
CsvRows == { HeaderRow, DataRow }

\* records of two fields: two names, and the same name twice
WideRow == << <<ByteH>>, <<ByteX>> >>
DupRow == << <<ByteH>>, <<ByteH>> >>
WideRows == { WideRow, DupRow, DataRow }

RowSeqs(n) == UNION { [1..l -> CsvRows] : l \in 0..n }

RECURSIVE joinFields(_)
joinFields(row) ==
    IF Len(row) = 0 THEN <<>>
    ELSE IF Len(row) = 1 THEN row[1]
    ELSE row[1] \o <<Comma>> \o joinFields(Tail(row))

\* the bytes of one record: fields joined by the comma, then the terminator
encodeRow(row) == joinFields(row) \o <<NL>>

RECURSIVE encodeRows(_)
encodeRows(rows) ==
    IF rows = <<>> THEN <<>> ELSE encodeRow(Head(rows)) \o encodeRows(Tail(rows))

\* an in-memory source holding the records rows, with or without a read
\* error injected behind its last byte
csvSource(k) ==
    { [name |-> SrcName(k), rows |-> rs, data |-> encodeRows(rs), openErr |-> FALSE,
       readErrN |-> IF fails THEN Len(encodeRows(rs)) ELSE -1] :
        rs \in RowSeqs(MaxRows), fails \in BOOLEAN }

RECURSIVE TotalRows(_)
TotalRows(s) == IF s = <<>> THEN 0 ELSE Len(Head(s).rows) + TotalRows(Tail(s))

\* a list holds MaxRows records at most; a read error is injected only into
\* the last source of a list that holds MaxRows records
CsvSourceOK(s, op) ==
    /\ TotalRows(s) + Len(op.rows) <= MaxRows
    /\ op.readErrN >= 0 => TotalRows(s) + Len(op.rows) = MaxRows
    /\ \A j \in 1..Len(s) : ~Faulty(s[j])

RECURSIVE CsvSourceListsOfLen(_)
CsvSourceListsOfLen(len) ==
    IF len = 0 THEN { <<>> }
    ELSE UNION { { Append(s, op) : op \in { o \in csvSource(len) : CsvSourceOK(s, o) } } :
                 s \in CsvSourceListsOfLen(len - 1) }

CsvSourceLists == UNION { CsvSourceListsOfLen(len) : len \in 0..MaxSources }

\* NewMuxReader(ctx, sources) has returned; NewCSVDecoder(opt).Decode(ctx, rc)
\* is about to be called
DecFresh ==
    /\ Started
    /\ dpc = "decode"
    /\ csvReader = NewReader
    /\ it = NilIterator
    /\ decodeErr = NoErr
    /\ nextResult = "none"
    /\ closeCalls = 0
    /\ parsedLog = <<>>
    /\ yielded = <<>>
    /\ callerNames = <<>>
    /\ MapAbsent
    /\ EnvAbsent

\* the header is inferred, or configured as one column
DecStart ==
    /\ DecFresh
    /\ optHeader \in { <<>>, HeaderRow }

\* sources that hold records of one and of two fields, none with a read error
wideSource(k) ==
    { [name |-> SrcName(k), rows |-> rs, data |-> encodeRows(rs), openErr |-> FALSE,
       readErrN |-> -1] :
        rs \in UNION { [1..l -> WideRows] : l \in 1..MaxRows } }

RECURSIVE WideSourceListsOfLen(_)
WideSourceListsOfLen(len) ==
    IF len = 0 THEN { <<>> }
    ELSE UNION { { Append(s, op) : op \in { o \in wideSource(len) : CsvSourceOK(s, o) } } :
                 s \in WideSourceListsOfLen(len - 1) }

WideSourceLists == UNION { WideSourceListsOfLen(len) : len \in 1..MaxSources }

\* the header is inferred, or configured as one column, or as the same name
\* twice
WideStart ==
    /\ DecFresh
    /\ optHeader \in { <<>>, HeaderRow, DupRow }

\* a first and a last source that hold records, with empty sources between
\* them
GapSourceLists ==
    { << a >> \o [k \in 1..(MaxSources - 1) |->
                    [name |-> SrcName(k + 1), rows |-> <<>>, data |-> <<>>,
                     openErr |-> FALSE, readErrN |-> -1]] \o << b >> :
        a \in { o \in csvSource(1) : o.rows # <<>> /\ ~Faulty(o) },
        b \in { o \in csvSource(MaxSources + 1) : o.rows # <<>> /\ ~Faulty(o) } }

DecInit ==
    \/ ops \in CsvSourceLists /\ DecStart
    \/ ops \in WideSourceLists /\ WideStart
    \/ ops \in { s \in GapSourceLists : TotalRows(s) <= MaxRows } /\ DecStart

\* ----------------------------------------------------------- csv.Reader
\* The sources hold no quote, no carriage return, no space and no comment
\* character, so a record is one line and a field the bytes between commas.

\* readRecord skips the lines that hold nothing but the terminator
RECURSIVE skipEmptyLines(_)
skipEmptyLines(p) ==
    IF p < Len(got) /\ got[p + 1] = NL THEN skipEmptyLines(p + 1) ELSE p

\* offset in the stream of the line csvReader.Read returns next
lineStart == skipEmptyLines(csvReader.pos)

\* position of the terminator of that line among the bytes read so far, or 0
nlAt ==
    LET S == { i \in (lineStart + 1)..Len(got) : got[i] = NL }
    IN IF S = {} THEN 0 ELSE CHOOSE i \in S : \A j \in S : i <= j

\* bytes in the bufio buffer
buffered == Len(got) - lineStart - csvReader.held

\* bufio.ReadSlice returns once the buffer holds a terminator or the
\* underlying reader has failed
recordReady == nlAt # 0 \/ csvReader.err # NoErr

RECURSIVE splitFields(_)
splitFields(text) ==
    LET S == { i \in 1..Len(text) : text[i] = Comma }
    IN IF S = {} THEN << text >>
       ELSE LET i == CHOOSE c \in S : \A j \in S : c <= j
            IN << SubSeq(text, 1, i - 1) >> \o splitFields(SubSeq(text, i + 1, Len(text)))

\* csvReader.Read() once recordReady: the record, the error, the source and
\* the offset of the line, and the reader afterwards. A last line without
\* terminator is a record when the stream ends with io.EOF; bufio hands its
\* error out once and forgets it.
csvRead ==
    LET start == lineStart
        nl == nlAt
        stop == IF nl # 0 THEN nl ELSE Len(got)
        text == IF nl # 0 THEN SubSeq(got, start + 1, nl - 1)
                          ELSE SubSeq(got, start + 1, stop)
        errRead == IF nl # 0 THEN NoErr
                   ELSE IF stop > start /\ csvReader.err = EOF THEN NoErr
                   ELSE csvReader.err
        fields == splitFields(text)
        fpr == IF csvReader.FieldsPerRecord = 0 THEN Len(fields)
               ELSE csvReader.FieldsPerRecord
        err == IF errRead # NoErr THEN errRead
               ELSE IF csvReader.FieldsPerRecord > 0 /\ Len(fields) # fpr
               THEN ErrFieldCount
               ELSE NoErr
    IN [row |-> IF errRead = EOF THEN <<>> ELSE fields,
        err |-> err,
        src |-> IF stop > start THEN gotSrc[start + 1] ELSE 0,
        at |-> start,
        reader |-> [pos |-> stop, held |-> 0,
                    err |-> IF nl # 0 THEN csvReader.err ELSE NoErr,
                    FieldsPerRecord |-> IF errRead = EOF THEN csvReader.FieldsPerRecord
                                        ELSE fpr]]

\* the record opens its source: no record of that source was read before
firstOfSource(r) == \A j \in 1..Len(parsedLog) : parsedLog[j].src # r.src

logRecord(r, hdr) ==
    IF r.err = NoErr
    THEN Append(parsedLog, [row |-> r.row, src |-> r.src, at |-> r.at,
                            first |-> firstOfSource(r), hdr |-> hdr])
    ELSE parsedLog

\* mutant of stickyError: Next goes on reading after an error
stickyErrorIgnored(i) == FALSE

\* the check Next starts with: the iterator has failed
stickyError(i) == i.decoderError # NoErr

\* bufio.Reader.fill inside csvReader.Read: one Read of the multiplexer into
\* the free part of the buffer. A full buffer without terminator is handed to
\* the csv reader first (bufio.ErrBufferFull) and filled anew.
CsvFill ==
    /\ dpc \in { "decode", "next" }
    /\ dpc = "decode" => optHeader = <<>>
    /\ dpc = "next" => (~stickyError(it) /\ Len(it.header) > 0 /\ ~it.hasPending)
    /\ ~recordReady
    /\ LET full == buffered >= BufioSize
       IN /\ pipeRead(IF full THEN BufioSize ELSE BufioSize - buffered)
          /\ csvReader' = [csvReader EXCEPT
                              !.held = IF full THEN @ + buffered ELSE @,
                              !.err = lastRead'.err]
    /\ UNCHANGED <<ops, producerVars, current, curLog, boundaryVars, pipeVars,
                   lastAwait, awaited, optHeader, dpc, it, decodeErr, nextResult,
                   closeCalls, parsedLog, yielded, userVars>>

\* -------------------------------------------------------------- Decode
\* mutant of validateHeader: every header is accepted
validateHeaderAccepts(h) == TRUE

\* validateHeader: no name occurs twice
validateHeader(h) == \A i, j \in 1..Len(h) : i # j => h[i] # h[j]

\* buildIndex: the map from name to position, as a set of pairs; positions
\* count from 0, and a later position replaces an earlier one of the same name
buildIndex(names) ==
    { << names[i], i - 1 >> : i \in { k \in 1..Len(names) :
                                       \A j \in (k + 1)..Len(names) : names[j] # names[k] } }

\* mutant of fieldsPerRecord: the reader takes the number of fields from the
\* next record it reads
fieldsPerRecordUnset(h) == 0

\* csvReader.FieldsPerRecord = len(csvHeader)
fieldsPerRecord(h) == Len(h)

\* mutant of inferFails: the error of the first Read is ignored
inferFailsNever(inferred, err) == FALSE

\* Decode gives up when the first record cannot be read
inferFails(inferred, err) == inferred /\ err # NoErr

\* csvDecoder.Decode: the header is the configured one or the first record
\* of the stream; the iterator starts with lastSourceMeta: rc.Current()
Decode ==
    /\ dpc = "decode"
    /\ optHeader = <<>> => recordReady
    /\ LET inferred == optHeader = <<>>
           r == csvRead
           csvHeader == IF inferred THEN r.row ELSE optHeader
           reader == IF inferred THEN r.reader ELSE csvReader
       IN IF inferFails(inferred, r.err)
          THEN /\ decodeErr' = InferError(r.err)
               /\ dpc' = "failed"
               /\ csvReader' = reader
               /\ UNCHANGED <<it, parsedLog>>
          ELSE /\ csvReader' = [reader EXCEPT !.FieldsPerRecord = fieldsPerRecord(csvHeader)]
               /\ parsedLog' = IF inferred THEN logRecord(r, TRUE) ELSE parsedLog
               /\ IF ~validateHeader(csvHeader)
                  THEN /\ decodeErr' = MalformedHeader
                       /\ dpc' = "failed"
                       /\ UNCHANGED it
                  ELSE /\ it' = [NilIterator EXCEPT
                                    !.header = csvHeader,
                                    !.invertedIndex = buildIndex(csvHeader),
                                    !.current = [j \in 1..Len(csvHeader) |-> <<>>],
                                    !.lastSourceMeta = Current]
                       /\ dpc' = "next"
                       /\ UNCHANGED decodeErr
    /\ UNCHANGED <<ops, producerVars, pending, current, curLog, boundaryVars, pipeVars,
                   got, gotSrc, lastRead, lastAwait, awaited, optHeader, nextResult,
                   closeCalls, yielded, userVars>>

\* ---------------------------------------------------------------- Next
\* csvRowIterator.isheader
isheader(header, row) ==
    /\ Len(header) = Len(row)
    /\ \A i \in 1..Len(header) : header[i] = row[i]

\* csvRowIterator.isSourceStart
isSourceStart(last, m) ==
    \/ last.Name = ""
    \/ m.Name # last.Name
    \/ (m.ByteOffset = 0 /\ last.ByteOffset # 0)

\* Next returns true with the record the iterator now holds
yield(row, m) ==
    LET e == parsedLog'[Len(parsedLog')]
    IN /\ yielded' = Append(yielded, [row |-> row, meta |-> m, src |-> e.src,
                                      at |-> e.at, first |-> e.first])
       /\ nextResult' = "true"

\* mutant of pushBack: the row is held with the SrcMeta seen last, not with
\* the one sampled behind it
pushBackStaleMeta(i, row, m) ==
    [i EXCEPT !.pending = row,
              !.pendingSrcMeta = i.lastSourceMeta,
              !.hasPending = TRUE,
              !.atStart = FALSE]

\* Next holds back the first row of a source, which is not a header:
\* it.pending = row, it.pendingSrcMeta = meta, it.hasPending = true,
\* it.atStart = false
pushBack(i, row, m) ==
    [i EXCEPT !.pending = row,
              !.pendingSrcMeta = m,
              !.hasPending = TRUE,
              !.atStart = FALSE]

\* mutant of dropHeader: the iterator stays at the source start
dropHeaderStays(i, m) ==
    [i EXCEPT !.atStart = TRUE, !.lastSourceMeta = m]

\* Next drops a source-local header row: it.atStart = false,
\* it.lastSourceMeta = meta
dropHeader(i, m) ==
    [i EXCEPT !.atStart = FALSE, !.lastSourceMeta = m]

\* One pass of the loop of csvRowIterator.Next, up to its continue or return:
\* return false at once after an error, or serve the pending record, or read
\* a record, sample Current() and classify the record.
NextStep ==
    /\ dpc = "next"
    /\ stickyError(it) \/ Len(it.header) = 0 \/ it.hasPending \/ recordReady
    /\ IF stickyError(it)
       THEN /\ nextResult' = "false"
            /\ UNCHANGED <<it, csvReader, parsedLog, yielded>>
       ELSE IF Len(it.header) = 0
       THEN /\ it' = [it EXCEPT !.decoderError = HeaderMissing]
            /\ nextResult' = "false"
            /\ UNCHANGED <<csvReader, parsedLog, yielded>>
       ELSE IF it.hasPending
       THEN /\ it' = [it EXCEPT !.current = it.pending,
                                !.currentSrcMeta = it.pendingSrcMeta,
                                !.hasPending = FALSE]
            /\ UNCHANGED <<csvReader, parsedLog>>
            /\ yield(it.pending, it.pendingSrcMeta)
       ELSE LET r == csvRead
                m == Current
                atStart == it.atStart \/ isSourceStart(it.lastSourceMeta, m)
            IN /\ csvReader' = r.reader
               /\ parsedLog' = logRecord(r, FALSE)
               /\ IF atStart
                  THEN IF r.err = EOF
                       THEN /\ it' = [it EXCEPT !.atStart = FALSE, !.lastSourceMeta = m]
                            /\ nextResult' = "running"
                            /\ UNCHANGED yielded
                       ELSE IF r.err # NoErr
                       THEN /\ it' = [it EXCEPT !.atStart = TRUE, !.decoderError = r.err]
                            /\ nextResult' = "false"
                            /\ UNCHANGED yielded
                       ELSE IF isheader(it.header, r.row)
                       THEN /\ it' = dropHeader(it, m)
                            /\ nextResult' = "running"
                            /\ UNCHANGED yielded
                       ELSE /\ it' = pushBack(it, r.row, m)
                            /\ nextResult' = "running"
                            /\ UNCHANGED yielded
                  ELSE IF r.err = EOF
                       THEN /\ nextResult' = "false"
                            /\ UNCHANGED <<it, yielded>>
                       ELSE IF r.err # NoErr
                       THEN /\ it' = [it EXCEPT !.decoderError = r.err]
                            /\ nextResult' = "false"
                            /\ UNCHANGED yielded
                       ELSE /\ it' = [it EXCEPT !.current = r.row,
                                                !.currentSrcMeta = m,
                                                !.lastSourceMeta = m]
                            /\ yield(r.row, m)
    /\ UNCHANGED <<ops, producerVars, pending, current, curLog, boundaryVars, pipeVars,
                   got, gotSrc, lastRead, lastAwait, awaited, optHeader, dpc, decodeErr,
                   closeCalls, userVars>>

\* ------------------------------------------------------------ Record
\* sliceExtractor over a record: Record() builds it over it.current
sliceExtractor(cur, m) ==
    [current |-> cur, header |-> it.header, invIndex |-> it.invertedIndex, srcMeta |-> m]

\* csvRowIterator.Record
Record == sliceExtractor(it.current, it.currentSrcMeta)

\* the result of an accessor: the value and ok; the empty string is <<>>
NotFound == [val |-> <<>>, ok |-> FALSE, panic |-> FALSE]
Found(v) == [val |-> v, ok |-> TRUE, panic |-> FALSE]
\* indexing a slice out of range panics
Panic == [val |-> <<>>, ok |-> FALSE, panic |-> TRUE]

\* sliceExtractor.ByIndex; i counts from 0
ByIndex(s, i) ==
    IF i < 0 \/ i >= Len(s.current) THEN NotFound ELSE Found(s.current[i + 1])

\* sliceExtractor.ByName
ByName(s, name) ==
    LET S == { e \in s.invIndex : e[1] = name }
    IN IF S = {} THEN NotFound
       ELSE LET ix == (CHOOSE e \in S : TRUE)[2]
            IN IF ix >= Len(s.current) THEN Panic ELSE Found(s.current[ix + 1])

\* sliceExtractor.Len
ExtLen(s) == Len(s.current)

\* mutant of Names: the header slice itself is returned
NamesShared(s) == [elems |-> s.header, array |-> "header"]

\* sliceExtractor.Names: the names appended to a new slice; array tells which
\* backing array the slice returned points into
Names(s) == [elems |-> s.header, array |-> "fresh"]

\* The caller takes Names() of the current record and overwrites its first
\* element; the write lands in the array the slice points into.
EditNames ==
    /\ dpc = "next"
    /\ callerNames = <<>>
    /\ Len(it.header) > 0
    /\ LET names == Names(Record)
           edited == [names.elems EXCEPT ![1] = <<ByteX, ByteX>>]
       IN /\ callerNames' = edited
          /\ it' = IF names.array = "header" THEN [it EXCEPT !.header = edited] ELSE it
    /\ UNCHANGED <<ops, producerVars, pending, current, curLog, boundaryVars, pipeVars,
                   got, gotSrc, lastRead, lastAwait, awaited, optHeader, dpc, csvReader,
                   decodeErr, nextResult, closeCalls, parsedLog, yielded, mapVars, envVars>>

\* mutant of ItClose: a Close of a closed stream is recorded as the iterator's
\* error
ItCloseRecordsError ==
    /\ dpc = "next"
    /\ closeCalls < MaxCloses
    /\ closeCalls' = closeCalls + 1
    /\ prerr' = onceStore(prerr, ErrClosedPipe)
    /\ pdone' = TRUE
    /\ it' = [it EXCEPT !.decoderError = IF pdone THEN ErrClosedPipe ELSE @]
    /\ UNCHANGED <<ops, producerVars, pending, current, curLog, boundaryVars, pwerr,
                   got, gotSrc, lastRead, lastAwait, awaited, optHeader, dpc, csvReader,
                   decodeErr, nextResult, parsedLog, yielded, userVars>>

\* csvRowIterator.Close: it.srcAwareStream.Close(), which is m.pr.Close()
ItClose ==
    /\ dpc = "next"
    /\ closeCalls < MaxCloses
    /\ closeCalls' = closeCalls + 1
    /\ prerr' = onceStore(prerr, ErrClosedPipe)
    /\ pdone' = TRUE
    /\ UNCHANGED <<ops, producerVars, pending, current, curLog, boundaryVars, pwerr,
                   got, gotSrc, lastRead, lastAwait, awaited, optHeader, dpc, csvReader,
                   it, decodeErr, nextResult, parsedLog, yielded, userVars>>

\* the steps of the goroutine while the consumer leaves the stream open:
\* m.pw.Write cannot fail
StreamProducer ==
    \/ Open
    \/ LoopEnd
    \/ StoreBoundary
    \/ PublishBoundary
    \/ RcRead
    \/ StoreOffset
    \/ EndOfSource
    \/ ReadFail
    \/ ReadMore
    \/ DeferPwClose
    \/ DeferDrain

DecNext ==
    \/ StreamProducer
    \/ CsvFill
    \/ Decode
    \/ NextStep

\* the producer goroutine and one consumer that decodes the stream and
\* leaves it open
DecSpec == DecInit /\ [][DecNext]_vars

\* lists of sources that each hold the header and one data record; the last
\* one with or without a read error behind its last byte
uniformSource(k, fails) ==
    LET rs == << HeaderRow, DataRow >>
    IN [name |-> SrcName(k), rows |-> rs, data |-> encodeRows(rs), openErr |-> FALSE,
        readErrN |-> IF fails THEN Len(encodeRows(rs)) ELSE -1]

UniformSourceLists ==
    { [k \in 1..len |-> uniformSource(k, fails /\ k = len)] :
        len \in 0..MaxSources, fails \in BOOLEAN }

DecCloseInit ==
    /\ ops \in UniformSourceLists
    /\ DecStart

DecCloseNext ==
    \/ Producer
    \/ CsvFill
    \/ Decode
    \/ NextStep
    \/ ItClose
    \/ EditNames

\* the producer goroutine runs on, and the consumer calls Decode and then Next
\* again and again
DecFairSpec ==
    /\ DecCloseInit
    /\ [][DecNext]_vars
    /\ WF_vars(StreamProducer)
    /\ WF_vars(CsvFill)
    /\ WF_vars(Decode)
    /\ WF_vars(NextStep)

\* ------------------------------------------- decode-then-map transform
NilMapperError == Err("transform: Mapper[T] must not be nil", "")
decodeFailure == Err("decode failed", "")
iteratorFailure == Err("decoder/iterator failure", "")
boom == Err("boom", "")

\* the records of the stub iterator: the values of a stubExtractor
StubRecs == { HeaderRow, DataRow, WideRow }

StubRecSeqs == UNION { [1..l -> StubRecs] : l \in 0..MaxRows }

\* Transform(ctx, nil, mapFn) is about to be called on a transformer over a
\* stubDecoder; mapFn is nil, or a mapper that fails on the records failsOn
MapInit ==
    /\ ops = <<>>
    /\ Started
    /\ DecoderAbsent
    /\ EnvAbsent
    /\ tpc = "transform"
    /\ mapFn \in { f \in [nil : BOOLEAN, failsOn : SUBSET StubRecs] :
                      f.nil => f.failsOn = {} }
    /\ dec \in [err : { NoErr, decodeFailure }, called : { 0 }]
    /\ inner \in { stubRecordIterator(recs, e) :
                      recs \in StubRecSeqs, e \in { NoErr, iteratorFailure } }
    /\ mit = NilMapped
    /\ transformErr = NoErr
    /\ mapLog = <<>>
    /\ mapped = <<>>
    /\ mNext = "none"

\* stubExtractor.ByIndex, with "" for ("", false)
stubByIndex(e, i) == IF i < 0 \/ i >= Len(e) THEN <<>> ELSE e[i + 1]

\* the mapper of the tests: the pair of the first two fields, or the error
\* boom with the zero value
callMapFn(f, e) ==
    IF e \in f.failsOn THEN [val |-> ZeroPair, err |-> boom]
    ELSE [val |-> [A |-> stubByIndex(e, 0), B |-> stubByIndex(e, 1)], err |-> NoErr]

\* stubRecordIterator.Next
stubNext(s) ==
    IF s.idx >= Len(s.recs)
    THEN [ok |-> FALSE, it |-> [s EXCEPT !.nextCalls = @ + 1]]
    ELSE [ok |-> TRUE, it |-> [s EXCEPT !.nextCalls = @ + 1, !.idx = @ + 1]]

\* stubRecordIterator.Record
stubRecord(s) == s.recs[s.idx]

\* mutant of nilMapper: the mapper is not checked
nilMapperUnchecked(f) == FALSE

\* Transform: mapFn == nil
nilMapper(f) == f.nil

\* decodeMapTransform.Transform over stubDecoder.Decode
Transform ==
    /\ tpc = "transform"
    /\ IF nilMapper(mapFn)
       THEN /\ transformErr' = NilMapperError
            /\ tpc' = "failed"
            /\ UNCHANGED <<dec, mit>>
       ELSE /\ dec' = [dec EXCEPT !.called = @ + 1]
            /\ IF dec.err # NoErr
               THEN /\ transformErr' = dec.err
                    /\ tpc' = "failed"
                    /\ UNCHANGED mit
               ELSE /\ mit' = [NilMapped EXCEPT !.built = TRUE]
                    /\ tpc' = "iterate"
                    /\ UNCHANGED transformErr
    /\ UNCHANGED <<ops, producerVars, pending, current, curLog, boundaryVars, pipeVars,
                   got, gotSrc, lastRead, lastAwait, awaited, optHeader, dpc, csvReader,
                   it, decodeErr, nextResult, closeCalls, parsedLog, yielded,
                   callerNames, mapFn, inner, mapLog, mapped, mNext, envVars>>

\* mutant of mapFails: the error of the mapper is ignored
mapFailsIgnored(r) == FALSE

\* mappedIterator.Next: the mapper has returned an error
mapFails(r) == r.err # NoErr

\* mappedIterator.Next
MapNextStep ==
    /\ tpc = "iterate"
    /\ IF mit.done
       THEN /\ mNext' = "false"
            /\ UNCHANGED <<mit, inner, mapLog, mapped>>
       ELSE IF mit.err # NoErr
       THEN /\ mit' = [mit EXCEPT !.done = TRUE]
            /\ mNext' = "false"
            /\ UNCHANGED <<inner, mapLog, mapped>>
       ELSE LET n == stubNext(inner)
            IN /\ inner' = n.it
               /\ IF ~n.ok
                  THEN /\ mit' = [mit EXCEPT !.done = TRUE]
                       /\ mNext' = "false"
                       /\ UNCHANGED <<mapLog, mapped>>
                  ELSE LET r == callMapFn(mapFn, stubRecord(n.it))
                       IN /\ mapLog' = Append(mapLog, stubRecord(n.it))
                          /\ IF mapFails(r)
                             THEN /\ mit' = [mit EXCEPT !.err = r.err, !.done = TRUE]
                                  /\ mNext' = "false"
                                  /\ UNCHANGED mapped
                             ELSE /\ mit' = [mit EXCEPT !.cur = r.val]
                                  /\ mNext' = "true"
                                  /\ mapped' = Append(mapped, r.val)
    /\ UNCHANGED <<ops, producerVars, pending, current, curLog, boundaryVars, pipeVars,
                   got, gotSrc, lastRead, lastAwait, awaited, optHeader, dpc, csvReader,
                   it, decodeErr, nextResult, closeCalls, parsedLog, yielded,
                   callerNames, tpc, mapFn, dec, transformErr, envVars>>

\* mappedIterator.Err
MapErr == IF mit.err # NoErr THEN mit.err ELSE inner.err

\* mutant of MapClose: the inner iterator is closed and done is left as it is
MapCloseNotDone ==
    /\ tpc = "iterate"
    /\ inner' = [inner EXCEPT !.closed = TRUE]
    /\ UNCHANGED <<ops, producerVars, pending, current, curLog, boundaryVars, pipeVars,
                   got, gotSrc, lastRead, lastAwait, awaited, optHeader, dpc, csvReader,
                   it, decodeErr, nextResult, closeCalls, parsedLog, yielded,
                   callerNames, tpc, mapFn, dec, mit, transformErr, mapLog, mapped, mNext,
                   envVars>>

\* mappedIterator.Close: done is set and the inner iterator is closed
MapClose ==
    /\ tpc = "iterate"
    /\ mit' = [mit EXCEPT !.done = TRUE]
    /\ inner' = [inner EXCEPT !.closed = TRUE]
    /\ UNCHANGED <<ops, producerVars, pending, current, curLog, boundaryVars, pipeVars,
                   got, gotSrc, lastRead, lastAwait, awaited, optHeader, dpc, csvReader,
                   it, decodeErr, nextResult, closeCalls, parsedLog, yielded,
                   callerNames, tpc, mapFn, dec, transformErr, mapLog, mapped, mNext,
                   envVars>>

MapNext ==
    \/ Transform
    \/ MapNextStep
    \/ MapClose

\* one caller of Transform who then calls Next and Close of the mapped
\* iterator in any order
MapSpec == MapInit /\ [][MapNext]_vars

\* the producer goroutine and one consumer that decodes the stream, calls
\* Close on the iterator at any time, MaxCloses times at most, and writes
\* once into a slice Names() returned
DecCloseSpec == DecCloseInit /\ [][DecCloseNext]_vars

\* ------------------------------------------------------ opener registry
schemeUnknown == "unknown"
schemeFile == "file"
schemeS3 == "s3"

\* a source specification is a string: the sequence of its code points.
\* These are the specifications of TestDetectScheme.
Specs ==
    {
      \* "data/a.psv"
      << 100, 97, 116, 97, 47, 97, 46, 112, 115, 118 >>,
      \* "./data/a.psv"
      << 46, 47, 100, 97, 116, 97, 47, 97, 46, 112, 115, 118 >>,
      \* "  file:///var/a.psv  "
      << 32, 32, 102, 105, 108, 101, 58, 47, 47, 47, 118, 97, 114, 47, 97, 46, 112, 115, 118, 32, 32 >>,
      \* "FILE://C:/tmp/a.psv"
      << 70, 73, 76, 69, 58, 47, 47, 67, 58, 47, 116, 109, 112, 47, 97, 46, 112, 115, 118 >>,
      \* "s3://bucket/key"
      << 115, 51, 58, 47, 47, 98, 117, 99, 107, 101, 116, 47, 107, 101, 121 >>,
      \* "S3://BUCKET/KEY"
      << 83, 51, 58, 47, 47, 66, 85, 67, 75, 69, 84, 47, 75, 69, 89 >>,
      \* "weird://thing"
      << 119, 101, 105, 114, 100, 58, 47, 47, 116, 104, 105, 110, 103 >>,
      \* "   "
      << 32, 32, 32 >> }

\* strings.ToLower: unicode.ToLower on every code point. caseRanges is the
\* simple lower-case mapping of Unicode 15.0, the table of package unicode:
\* <<lo, hi, stride, delta>> maps every stride-th code point c of lo..hi to
\* c + delta (U+0130 to "i", U+212A to "k"); every other code point stays.
ToLower(s) ==
    LET caseRanges ==
            << <<65, 90, 1, 32>>, <<192, 214, 1, 32>>, <<216, 222, 1, 32>>,
               <<256, 302, 2, 1>>, <<304, 304, 1, -199>>, <<306, 310, 2, 1>>,
               <<313, 327, 2, 1>>, <<330, 374, 2, 1>>, <<376, 376, 1, -121>>,
               <<377, 381, 2, 1>>, <<385, 385, 1, 210>>, <<386, 388, 2, 1>>,
               <<390, 390, 1, 206>>, <<391, 391, 1, 1>>, <<393, 394, 1, 205>>,
               <<395, 395, 1, 1>>, <<398, 398, 1, 79>>, <<399, 399, 1, 202>>,
               <<400, 400, 1, 203>>, <<401, 401, 1, 1>>, <<403, 403, 1, 205>>,
               <<404, 404, 1, 207>>, <<406, 406, 1, 211>>, <<407, 407, 1, 209>>,
               <<408, 408, 1, 1>>, <<412, 412, 1, 211>>, <<413, 413, 1, 213>>,
               <<415, 415, 1, 214>>, <<416, 420, 2, 1>>, <<422, 422, 1, 218>>,
               <<423, 423, 1, 1>>, <<425, 425, 1, 218>>, <<428, 428, 1, 1>>,
               <<430, 430, 1, 218>>, <<431, 431, 1, 1>>, <<433, 434, 1, 217>>,
               <<435, 437, 2, 1>>, <<439, 439, 1, 219>>, <<440, 440, 1, 1>>,
               <<444, 444, 1, 1>>, <<452, 452, 1, 2>>, <<453, 453, 1, 1>>,
               <<455, 455, 1, 2>>, <<456, 456, 1, 1>>, <<458, 458, 1, 2>>,
               <<459, 475, 2, 1>>, <<478, 494, 2, 1>>, <<497, 497, 1, 2>>,
               <<498, 500, 2, 1>>, <<502, 502, 1, -97>>, <<503, 503, 1, -56>>,
               <<504, 542, 2, 1>>, <<544, 544, 1, -130>>, <<546, 562, 2, 1>>,
               <<570, 570, 1, 10795>>, <<571, 571, 1, 1>>, <<573, 573, 1, -163>>,
               <<574, 574, 1, 10792>>, <<577, 577, 1, 1>>, <<579, 579, 1, -195>>,
               <<580, 580, 1, 69>>, <<581, 581, 1, 71>>, <<582, 590, 2, 1>>,
               <<880, 882, 2, 1>>, <<886, 886, 1, 1>>, <<895, 895, 1, 116>>,
               <<902, 902, 1, 38>>, <<904, 906, 1, 37>>, <<908, 908, 1, 64>>,
               <<910, 911, 1, 63>>, <<913, 929, 1, 32>>, <<931, 939, 1, 32>>,
               <<975, 975, 1, 8>>, <<984, 1006, 2, 1>>, <<1012, 1012, 1, -60>>,
               <<1015, 1015, 1, 1>>, <<1017, 1017, 1, -7>>, <<1018, 1018, 1, 1>>,
               <<1021, 1023, 1, -130>>, <<1024, 1039, 1, 80>>,
               <<1040, 1071, 1, 32>>, <<1120, 1152, 2, 1>>, <<1162, 1214, 2, 1>>,
               <<1216, 1216, 1, 15>>, <<1217, 1229, 2, 1>>, <<1232, 1326, 2, 1>>,
               <<1329, 1366, 1, 48>>, <<4256, 4293, 1, 7264>>,
               <<4295, 4295, 1, 7264>>, <<4301, 4301, 1, 7264>>,
               <<5024, 5103, 1, 38864>>, <<5104, 5109, 1, 8>>,
               <<7312, 7354, 1, -3008>>, <<7357, 7359, 1, -3008>>,
               <<7680, 7828, 2, 1>>, <<7838, 7838, 1, -7615>>,
               <<7840, 7934, 2, 1>>, <<7944, 7951, 1, -8>>, <<7960, 7965, 1, -8>>,
               <<7976, 7983, 1, -8>>, <<7992, 7999, 1, -8>>,
               <<8008, 8013, 1, -8>>, <<8025, 8031, 2, -8>>,
               <<8040, 8047, 1, -8>>, <<8072, 8079, 1, -8>>,
               <<8088, 8095, 1, -8>>, <<8104, 8111, 1, -8>>,
               <<8120, 8121, 1, -8>>, <<8122, 8123, 1, -74>>,
               <<8124, 8124, 1, -9>>, <<8136, 8139, 1, -86>>,
               <<8140, 8140, 1, -9>>, <<8152, 8153, 1, -8>>,
               <<8154, 8155, 1, -100>>, <<8168, 8169, 1, -8>>,
               <<8170, 8171, 1, -112>>, <<8172, 8172, 1, -7>>,
               <<8184, 8185, 1, -128>>, <<8186, 8187, 1, -126>>,
               <<8188, 8188, 1, -9>>, <<8486, 8486, 1, -7517>>,
               <<8490, 8490, 1, -8383>>, <<8491, 8491, 1, -8262>>,
               <<8498, 8498, 1, 28>>, <<8544, 8559, 1, 16>>, <<8579, 8579, 1, 1>>,
               <<9398, 9423, 1, 26>>, <<11264, 11311, 1, 48>>,
               <<11360, 11360, 1, 1>>, <<11362, 11362, 1, -10743>>,
               <<11363, 11363, 1, -3814>>, <<11364, 11364, 1, -10727>>,
               <<11367, 11371, 2, 1>>, <<11373, 11373, 1, -10780>>,
               <<11374, 11374, 1, -10749>>, <<11375, 11375, 1, -10783>>,
               <<11376, 11376, 1, -10782>>, <<11378, 11378, 1, 1>>,
               <<11381, 11381, 1, 1>>, <<11390, 11391, 1, -10815>>,
               <<11392, 11490, 2, 1>>, <<11499, 11501, 2, 1>>,
               <<11506, 11506, 1, 1>>, <<42560, 42604, 2, 1>>,
               <<42624, 42650, 2, 1>>, <<42786, 42798, 2, 1>>,
               <<42802, 42862, 2, 1>>, <<42873, 42875, 2, 1>>,
               <<42877, 42877, 1, -35332>>, <<42878, 42886, 2, 1>>,
               <<42891, 42891, 1, 1>>, <<42893, 42893, 1, -42280>>,
               <<42896, 42898, 2, 1>>, <<42902, 42920, 2, 1>>,
               <<42922, 42922, 1, -42308>>, <<42923, 42923, 1, -42319>>,
               <<42924, 42924, 1, -42315>>, <<42925, 42925, 1, -42305>>,
               <<42926, 42926, 1, -42308>>, <<42928, 42928, 1, -42258>>,
               <<42929, 42929, 1, -42282>>, <<42930, 42930, 1, -42261>>,
               <<42931, 42931, 1, 928>>, <<42932, 42946, 2, 1>>,
               <<42948, 42948, 1, -48>>, <<42949, 42949, 1, -42307>>,
               <<42950, 42950, 1, -35384>>, <<42951, 42953, 2, 1>>,
               <<42960, 42960, 1, 1>>, <<42966, 42968, 2, 1>>,
               <<42997, 42997, 1, 1>>, <<65313, 65338, 1, 32>>,
               <<66560, 66599, 1, 40>>, <<66736, 66771, 1, 40>>,
               <<66928, 66938, 1, 39>>, <<66940, 66954, 1, 39>>,
               <<66956, 66962, 1, 39>>, <<66964, 66965, 1, 39>>,
               <<68736, 68786, 1, 64>>, <<71840, 71871, 1, 32>>,
               <<93760, 93791, 1, 32>>, <<125184, 125217, 1, 34>> >>
        lowerRune(c) ==
            IF \E n \in 1..Len(caseRanges) :
                  /\ caseRanges[n][1] <= c /\ c <= caseRanges[n][2]
                  /\ (c - caseRanges[n][1]) % caseRanges[n][3] = 0
            THEN LET r == caseRanges[CHOOSE n \in 1..Len(caseRanges) :
                                       /\ caseRanges[n][1] <= c /\ c <= caseRanges[n][2]
                                       /\ (c - caseRanges[n][1]) % caseRanges[n][3] = 0]
                 IN c + r[4]
            ELSE c
    IN [n \in 1..Len(s) |-> lowerRune(s[n])]

\* strings.TrimSpace: leading and trailing white space is cut off. White space
\* is unicode.IsSpace: \t \n \v \f \r (9..13), the blank (32), U+0085, U+00A0
\* and the other code points with the White_Space property.
TrimSpace(s) ==
    LET isSpace(c) ==
            c \in (9..13) \cup (8192..8202)
                  \cup { 32, 133, 160, 5760, 8232, 8233, 8239, 8287, 12288 }
        S == { n \in 1..Len(s) : ~isSpace(s[n]) }
    IN IF S = {} THEN << >>
       ELSE SubSeq(s, CHOOSE n \in S : \A m \in S : n <= m,
                      CHOOSE n \in S : \A m \in S : n >= m)

detectScheme(spec) ==
    LET s == ToLower(TrimSpace(spec))
        HasPrefix(t, pre) == Len(pre) <= Len(t) /\ SubSeq(t, 1, Len(pre)) = pre
        Contains(t, sub) ==
            \E n \in 0..(Len(t) - Len(sub)) : SubSeq(t, n + 1, n + Len(sub)) = sub
    IN \* "file://"
       IF HasPrefix(s, << 102, 105, 108, 101, 58, 47, 47 >>) THEN schemeFile
       \* "s3://"
       ELSE IF HasPrefix(s, << 115, 51, 58, 47, 47 >>) THEN schemeS3
       \* "://"
       ELSE IF ~Contains(s, << 58, 47, 47 >>) THEN schemeFile
       ELSE schemeUnknown

AlreadyRegistered(scheme) == Err("opener for scheme already registered", scheme)
UnknownScheme == Err("unknown scheme", "")
NotRegistered(scheme) == Err("no opener registered for scheme", scheme)

\* a goroutine about to call RegisterOpener(scheme, f)
registerCall(scheme) ==
    [op |-> "register", scheme |-> scheme, spec |-> << >>,
     pc |-> "start", f |-> 0, ok |-> FALSE, err |-> NoErr, opener |-> << >>]

\* a goroutine about to call OpenerFromSpec(spec)
lookupCall(spec) ==
    [op |-> "lookup", scheme |-> schemeUnknown, spec |-> spec,
     pc |-> "start", f |-> 0, ok |-> FALSE, err |-> NoErr, opener |-> << >>]

\* every goroutine registers its own factory or looks a specification up; the registry
\* is empty, or init() has registered factory 0 for the file scheme
RegInit ==
    /\ ops = <<>>
    /\ Started
    /\ DecoderAbsent
    /\ MapAbsent
    /\ CtxAbsent
    /\ RunAbsent
    /\ openerRegistry \in { {}, { << schemeFile, 0 >> } }
    /\ regMu = Unlocked
    /\ \E n \in 1..MaxProcs :
          regProcs \in [1..n -> { registerCall(s) : s \in { schemeFile, schemeS3 } }
                                  \cup { lookupCall(sp) : sp \in Specs }]

\* openerRegistry[scheme]: the factory and ok
registryGet(scheme) ==
    LET S == { e \in openerRegistry : e[1] = scheme }
    IN IF S = {} THEN [f |-> 0, ok |-> FALSE]
       ELSE [f |-> (CHOOSE e \in S : TRUE)[2], ok |-> TRUE]

\* openerRegistry[scheme] = f
registryPut(scheme, f) ==
    { e \in openerRegistry : e[1] # scheme } \cup { << scheme, f >> }

\* the factory a goroutine registers: its own
factoryOf(k) == 10 * k

\* the registry calls touch nothing but the registry
RegFrame ==
    UNCHANGED <<ops, producerVars, pending, current, curLog, boundaryVars, pipeVars,
                got, gotSrc, lastRead, lastAwait, awaited, optHeader, dpc, csvReader,
                it, decodeErr, nextResult, closeCalls, parsedLog, yielded,
                callerNames, mapVars, ctxCanceled, ctxAware, decCtx, priorRun>>

\* regMu.Lock() in RegisterOpener
RegLock(k) ==
    /\ regProcs[k].op = "register" /\ regProcs[k].pc = "start"
    /\ regMu = Unlocked
    /\ regMu' = [regMu EXCEPT !.writer = k]
    /\ regProcs' = [regProcs EXCEPT ![k].pc = "locked"]
    /\ UNCHANGED openerRegistry
    /\ RegFrame

\* mutant of alreadyRegistered: the registry is not looked at
alreadyRegisteredNever(scheme) == FALSE

\* RegisterOpener: _, ok := openerRegistry[scheme]
alreadyRegistered(scheme) == registryGet(scheme).ok

\* the body of RegisterOpener under the lock
RegStore(k) ==
    /\ regProcs[k].op = "register" /\ regProcs[k].pc = "locked"
    /\ IF alreadyRegistered(regProcs[k].scheme)
       THEN /\ regProcs' = [regProcs EXCEPT ![k].pc = "unlock",
                                            ![k].err = AlreadyRegistered(regProcs[k].scheme)]
            /\ UNCHANGED openerRegistry
       ELSE /\ openerRegistry' = registryPut(regProcs[k].scheme, factoryOf(k))
            /\ regProcs' = [regProcs EXCEPT ![k].pc = "unlock"]
    /\ UNCHANGED regMu
    /\ RegFrame

\* defer regMu.Unlock()
RegUnlock(k) ==
    /\ regProcs[k].op = "register" /\ regProcs[k].pc = "unlock"
    /\ regMu' = [regMu EXCEPT !.writer = 0]
    /\ regProcs' = [regProcs EXCEPT ![k].pc = "done"]
    /\ UNCHANGED openerRegistry
    /\ RegFrame

\* OpenerFromSpec: detectScheme and the unknown scheme error
LookupDetect(k) ==
    /\ regProcs[k].op = "lookup" /\ regProcs[k].pc = "start"
    /\ LET scheme == detectScheme(regProcs[k].spec)
       IN regProcs' = IF scheme = schemeUnknown
                      THEN [regProcs EXCEPT ![k].pc = "done", ![k].scheme = scheme,
                                            ![k].err = UnknownScheme]
                      ELSE [regProcs EXCEPT ![k].pc = "detected", ![k].scheme = scheme]
    /\ UNCHANGED <<openerRegistry, regMu>>
    /\ RegFrame

\* regMu.RLock()
LookupRLock(k) ==
    /\ regProcs[k].op = "lookup" /\ regProcs[k].pc = "detected"
    /\ regMu.writer = 0
    /\ regMu' = [regMu EXCEPT !.readers = @ \cup { k }]
    /\ regProcs' = [regProcs EXCEPT ![k].pc = "rlocked"]
    /\ UNCHANGED openerRegistry
    /\ RegFrame

\* f, ok := openerRegistry[scheme]
LookupRead(k) ==
    /\ regProcs[k].op = "lookup" /\ regProcs[k].pc = "rlocked"
    /\ LET r == registryGet(regProcs[k].scheme)
       IN regProcs' = [regProcs EXCEPT ![k].pc = "read", ![k].f = r.f, ![k].ok = r.ok]
    /\ UNCHANGED <<openerRegistry, regMu>>
    /\ RegFrame

\* regMu.RUnlock()
LookupRUnlock(k) ==
    /\ regProcs[k].op = "lookup" /\ regProcs[k].pc = "read"
    /\ regMu' = [regMu EXCEPT !.readers = @ \ { k }]
    /\ regProcs' = [regProcs EXCEPT ![k].pc = "runlocked"]
    /\ UNCHANGED openerRegistry
    /\ RegFrame

\* the not-registered error, or f(spec): the opener list of factory f
LookupCall(k) ==
    /\ regProcs[k].op = "lookup" /\ regProcs[k].pc = "runlocked"
    /\ regProcs' = IF ~regProcs[k].ok
                   THEN [regProcs EXCEPT ![k].pc = "done",
                                         ![k].err = NotRegistered(regProcs[k].scheme)]
                   ELSE [regProcs EXCEPT ![k].pc = "done",
                                         ![k].opener = << regProcs[k].f, regProcs[k].spec >>]
    /\ UNCHANGED <<openerRegistry, regMu>>
    /\ RegFrame

RegNext ==
    \/ \E k \in 1..Len(regProcs) : RegLock(k)
    \/ \E k \in 1..Len(regProcs) : RegStore(k)
    \/ \E k \in 1..Len(regProcs) : RegUnlock(k)
    \/ \E k \in 1..Len(regProcs) : LookupDetect(k)
    \/ \E k \in 1..Len(regProcs) : LookupRLock(k)
    \/ \E k \in 1..Len(regProcs) : LookupRead(k)
    \/ \E k \in 1..Len(regProcs) : LookupRUnlock(k)
    \/ \E k \in 1..Len(regProcs) : LookupCall(k)

\* goroutines that call RegisterOpener and OpenerFromSpec concurrently
RegSpec == RegInit /\ [][RegNext]_vars

\* --------------------------------------------------- decoding twice
\* what a caller gets out of a decoding run: the error of Decode, the records
\* Next yielded with the Name of their Meta(), and Err()
Outcome ==
    [decodeErr |-> decodeErr,
     rows |-> [i \in 1..Len(yielded) |-> yielded[i].row],
     names |-> [i \in 1..Len(yielded) |-> yielded[i].meta.Name],
     err |-> it.decoderError]

\* Decode has failed, or Next has returned false
RunEnded == dpc = "failed" \/ (dpc = "next" /\ nextResult = "false")

\* the caller keeps the outcome of the run that has ended and starts over:
\* NewMuxReader over the same openers, NewCSVDecoder with the same options
Rerun ==
    /\ priorRun = <<>>
    /\ RunEnded
    /\ priorRun' = << Outcome >>
    /\ pc' = "open"
    /\ idx' = 1
    /\ rcs' = <<>>
    /\ openLog' = <<>>
    /\ meta' = ZeroMeta
    /\ buf' = [j \in 1..ChunkSize |-> 0]
    /\ nRead' = 0
    /\ rerr' = NoErr
    /\ pending' = <<>>
    /\ obtained' = <<>>
    /\ current' = <<>>
    /\ curLog' = <<>>
    /\ boundary' = <<>>
    /\ boundaryClosed' = FALSE
    /\ pubLog' = <<>>
    /\ pdone' = FALSE
    /\ prerr' = NoErr
    /\ pwerr' = NoErr
    /\ got' = <<>>
    /\ gotSrc' = <<>>
    /\ lastRead' = [called |-> FALSE, n |-> 0, err |-> NoErr]
    /\ dpc' = "decode"
    /\ csvReader' = NewReader
    /\ it' = NilIterator
    /\ decodeErr' = NoErr
    /\ nextResult' = "none"
    /\ parsedLog' = <<>>
    /\ yielded' = <<>>
    /\ UNCHANGED <<ops, optHeader, lastAwait, awaited, closeCalls, callerNames, mapVars,
                   regVars, ctxCanceled, ctxAware, decCtx>>

DetNext ==
    \/ StreamProducer
    \/ CsvFill
    \/ Decode
    \/ NextStep
    \/ Rerun

\* the same sources decoded twice with the same options, each time by a
\* producer goroutine and a consumer that calls Decode and then Next
DetSpec == DecCloseInit /\ [][DetNext]_vars

\* ------------------------------------- cancelling NewMuxReader's context
\* the caller cancels the context it gave to NewMuxReader
Cancel ==
    /\ ~ctxCanceled
    /\ ctxCanceled' = TRUE
    /\ UNCHANGED <<ops, producerVars, pending, current, curLog, boundaryVars, pipeVars,
                   got, gotSrc, lastRead, lastAwait, awaited, optHeader, dpc, csvReader,
                   it, decodeErr, nextResult, closeCalls, parsedLog, yielded,
                   callerNames, mapVars, regVars, ctxAware, decCtx, priorRun>>

\* NewMuxReader(ctx, ops) has returned; the openers are fakeOpeners, which
\* ignore ctx, or check it as openers.File does
CancelInit ==
    /\ ops \in SourceLists
    /\ Started
    /\ DecoderAbsent
    /\ MapAbsent
    /\ RegAbsent
    /\ RunAbsent
    /\ ctxCanceled = FALSE
    /\ ctxAware \in BOOLEAN
    /\ decCtx = "background"

CancelNext ==
    \/ StreamProducer
    \/ \E size \in 1..MaxBuf : Read(size)
    \/ Cancel

\* the producer goroutine, a consumer that reads the stream and leaves it
\* open, and a caller that may cancel the context at any moment
CancelSpec == CancelInit /\ [][CancelNext]_vars

\* ---------------------------------------- cancelling Decode's context
\* the caller cancels the context it gave to Decode
CancelDecode ==
    /\ decCtx = "background"
    /\ decCtx' = "canceled"
    /\ UNCHANGED <<ops, producerVars, pending, current, curLog, boundaryVars, pipeVars,
                   got, gotSrc, lastRead, lastAwait, awaited, optHeader, dpc, csvReader,
                   it, decodeErr, nextResult, closeCalls, parsedLog, yielded,
                   callerNames, mapVars, regVars, ctxCanceled, ctxAware, priorRun>>

\* mutant of WatchClose: the goroutine returns without closing the stream
WatchCloseSkipped ==
    /\ dpc = "next"
    /\ decCtx = "canceled"
    /\ decCtx' = "closed"
    /\ UNCHANGED <<ops, producerVars, pending, current, curLog, boundaryVars, pipeVars,
                   got, gotSrc, lastRead, lastAwait, awaited, optHeader, dpc, csvReader,
                   it, decodeErr, nextResult, closeCalls, parsedLog, yielded,
                   callerNames, mapVars, regVars, ctxCanceled, ctxAware, priorRun>>

\* the goroutine Decode starts when it succeeds: <-ctx.Done(); _ = rc.Close(),
\* which is m.pr.Close()
WatchClose ==
    /\ dpc = "next"
    /\ decCtx = "canceled"
    /\ decCtx' = "closed"
    /\ prerr' = onceStore(prerr, ErrClosedPipe)
    /\ pdone' = TRUE
    /\ UNCHANGED <<ops, producerVars, pending, current, curLog, boundaryVars, pwerr,
                   got, gotSrc, lastRead, lastAwait, awaited, optHeader, dpc, csvReader,
                   it, decodeErr, nextResult, closeCalls, parsedLog, yielded,
                   callerNames, mapVars, regVars, ctxCanceled, ctxAware, priorRun>>

DecCancelNext ==
    \/ Producer
    \/ CsvFill
    \/ Decode
    \/ NextStep
    \/ CancelDecode
    \/ WatchClose

\* the producer goroutine, a consumer that calls Decode and then Next again
\* and again, a caller that may cancel Decode's context, and the goroutine
\* that waits for that; every goroutine runs on
DecCancelSpec ==
    /\ DecCloseInit
    /\ [][DecCancelNext]_vars
    /\ WF_vars(Producer)
    /\ WF_vars(CsvFill)
    /\ WF_vars(Decode)
    /\ WF_vars(NextStep)
    /\ WF_vars(WatchClose)

\* -------------------------------------- sources without a final terminator
\* the bytes of the records rows, the last one without its terminator
encodeOpenEnded(rows) ==
    LET b == encodeRows(rows) IN SubSeq(b, 1, Len(b) - 1)

\* a source holding one record or more, whose payload ends with the
\* terminator of its last record or without it, with or without a read error
\* injected behind its last byte
openEndedSource(k) ==
    { [name |-> SrcName(k), rows |-> rs,
       data |-> IF terminated THEN encodeRows(rs) ELSE encodeOpenEnded(rs),
       openErr |-> FALSE,
       readErrN |-> IF fails
                    THEN Len(IF terminated THEN encodeRows(rs) ELSE encodeOpenEnded(rs))
                    ELSE -1] :
        rs \in RowSeqs(MaxRows) \ { <<>> }, terminated \in BOOLEAN, fails \in BOOLEAN }

RECURSIVE OpenEndedListsOfLen(_)
OpenEndedListsOfLen(len) ==
    IF len = 0 THEN { <<>> }
    ELSE UNION { { Append(s, op) : op \in { o \in openEndedSource(len) : CsvSourceOK(s, o) } } :
                 s \in OpenEndedListsOfLen(len - 1) }

OpenEndedLists == UNION { OpenEndedListsOfLen(len) : len \in 1..MaxSources }

OpenEndedInit ==
    /\ ops \in OpenEndedLists
    /\ DecStart

\* the producer goroutine and one consumer that decodes a stream of sources
\* of which some end without a line terminator
OpenEndedSpec == OpenEndedInit /\ [][DecNext]_vars

\* ====================================================================
\* Properties
\* ====================================================================
IsPrefix(s, u) == Len(s) <= Len(u) /\ s = SubSeq(u, 1, Len(s))

\* b1 || ... || bk
RECURSIVE ConcatData(_, _)
ConcatData(s, k) == IF k = 0 THEN <<>> ELSE ConcatData(s, k - 1) \o s[k].data

NoFaults == \A k \in 1..Len(ops) : ~Faulty(ops[k])

\* the consumer has not called Close
ReaderOpen == prerr = NoErr

Exited == { "pwClose", "drain", "done" }

\* C1: when every source opens and reads without error, the bytes Read has
\* returned are at every moment a prefix of b1 || ... || bN, Read returns no
\* error but io.EOF, and when it returns io.EOF the consumer holds exactly
\* b1 || ... || bN (for every interleaving and every buffer size 1..MaxBuf).
C1_Concatenation ==
    (NoFaults /\ ReaderOpen) =>
        /\ IsPrefix(got, ConcatData(ops, Len(ops)))
        /\ lastRead.err \in { NoErr, EOF }
        /\ lastRead.err = EOF => got = ConcatData(ops, Len(ops))

\* two non-empty sources, the first one longer than a chunk, drained to EOF
C1_Witness ==
    /\ NoFaults /\ ReaderOpen
    /\ Len(ops) = 2
    /\ Len(ops[1].data) > ChunkSize
    /\ Len(ops[2].data) > 0
    /\ lastRead.err = EOF
    /\ got = ops[1].data \o ops[2].data

\* the values stored into m.current that begin a source
BoundaryStores == SelectSeq(curLog, LAMBDA m : m.ByteOffset = 0)

\* C2: the boundaries sent on the mailbox are {Name of source j, 0} for
\* j = 1, 2, ... in list order, one per source opened so far (a zero-byte
\* source included); Current() was given the same boundaries first; and every
\* byte the consumer holds comes from a source whose boundary was already
\* stored and sent. When the producer has gone through the whole list, every
\* source has had its boundary.
C2_BoundaryBeforeBytes ==
    /\ \A j \in 1..Len(pubLog) : pubLog[j] = SrcMeta(ops[j].name, 0)
    /\ \A j \in 1..Len(BoundaryStores) : BoundaryStores[j] = SrcMeta(ops[j].name, 0)
    /\ Len(pubLog) <= Len(BoundaryStores)
    /\ Len(BoundaryStores) <= Len(rcs)
    /\ pc \notin { "store", "publish" } => Len(pubLog) = Len(rcs)
    /\ \A j \in 1..Len(rcs) : rcs[j].src = j
    /\ \A j \in 1..Len(gotSrc) : gotSrc[j] <= Len(pubLog)
    /\ (pc \in Exited /\ idx > Len(ops)) => Len(pubLog) = Len(ops)

\* a zero-byte first source got its boundary, and bytes of the second source
\* have reached the consumer
C2_Witness ==
    /\ Len(ops) = 2
    /\ ops[1].data = <<>>
    /\ ~Faulty(ops[1])
    /\ pubLog = <<SrcMeta(ops[1].name, 0), SrcMeta(ops[2].name, 0)>>
    /\ gotSrc # <<>>
    /\ gotSrc[1] = 2

\* C3: if source k is the first faulty source and its fault is that Open
\* fails, then the consumer receives a prefix of b1 || ... || b(k-1), the only
\* error Read returns is "open <name of k>", it returns it only after all of
\* b1 || ... || b(k-1), no byte of source k or later is delivered, and no
\* source after k is opened.
C3_OpenError ==
    \A k \in 1..Len(ops) :
        (ops[k].openErr /\ \A j \in 1..(k - 1) : ~Faulty(ops[j])) =>
            /\ \A j \in 1..Len(gotSrc) : gotSrc[j] < k
            /\ \A j \in 1..Len(openLog) : openLog[j] <= k
            /\ \A j \in 1..Len(rcs) : rcs[j].src < k
            /\ ReaderOpen =>
                /\ IsPrefix(got, ConcatData(ops, k - 1))
                /\ lastRead.err \in { NoErr, OpenError(ops[k].name) }
                /\ lastRead.err # NoErr => got = ConcatData(ops, k - 1)

\* the first source failed to open, a second one exists, Read returned the error
C3_Witness ==
    /\ Len(ops) = 2
    /\ ~Faulty(ops[1]) /\ ops[1].data # <<>>
    /\ ops[2].openErr
    /\ ReaderOpen
    /\ lastRead.err = OpenError(ops[2].name)
    /\ got = ops[1].data
    /\ pc = "done"

\* C4: when Read surfaces a read error, it names the source whose read
\* failed, the consumer holds every byte the producer obtained from the sources
\* (those returned together with the error included), and no later source was
\* opened.
C4_PartialBeforeReadError ==
    (ReaderOpen /\ lastRead.err.kind = "read") =>
        /\ got = obtained
        /\ idx <= Len(ops)
        /\ ops[idx].readErrN >= 0
        /\ lastRead.err = ReadError(ops[idx].name)
        /\ got = ConcatData(ops, idx - 1) \o SubSeq(ops[idx].data, 1, ops[idx].readErrN)
        /\ \A j \in 1..Len(openLog) : openLog[j] <= idx

\* the failing rc.Read returned bytes together with the error, and a later
\* source exists
C4_Witness ==
    /\ ReaderOpen
    /\ lastRead.err.kind = "read"
    /\ nRead > 0
    /\ rerr = injectedError
    /\ idx < Len(ops)
    /\ got # <<>>

\* the error the producer has aborted the stream with, NoErr if it has not:
\* Open of ops[idx] failed, or the last rc.Read failed and its bytes are out
AbortError ==
    IF pc \in Exited /\ idx <= Len(ops) /\ ops[idx].openErr
    THEN OpenError(ops[idx].name)
    ELSE IF pc \in Exited /\ rerr \notin { NoErr, EOF } /\ pending = <<>>
    THEN ReadError(ops[idx].name)
    ELSE NoErr

\* C5: once the producer has aborted the stream with an open or read error,
\* that error stays the pipe's write error (the deferred pw.Close() does not
\* replace it), every byte obtained has been delivered, Read never reports
\* io.EOF, and as long as the consumer has not itself closed the reader every
\* Read returns that error.
C5_StickyError ==
    AbortError # NoErr =>
        /\ pdone
        /\ pwerr = AbortError
        /\ got = obtained
        /\ lastRead.err # EOF
        /\ ReaderOpen =>
            /\ readCloseError = AbortError
            /\ lastRead.err \in { NoErr, AbortError }

\* the producer aborted on a read error after delivering bytes, its deferred
\* pw.Close() has run, and Read has returned the error
C5_Witness ==
    /\ pc = "done"
    /\ AbortError.kind = "read"
    /\ got # <<>>
    /\ ReaderOpen
    /\ lastRead.err = AbortError

\* C6: at most one source handle is open; Open is called on the sources in
\* list order, once each; and once the producer has left its loop (clean end,
\* open error, read error, failed write) no handle is open.
C6_OneHandle ==
    /\ Cardinality(OpenHandles) <= 1
    /\ \A j \in 1..Len(openLog) : openLog[j] = j
    /\ \A j \in 1..Len(rcs) : rcs[j].src = j
    /\ pc \in Exited => OpenHandles = {}
    /\ pc \in { "store", "publish", "read", "write", "check" } => OpenHandles = { Len(rcs) }

\* the producer was stopped by a failed write after the consumer's Close, while
\* it held the handle of the second source
C6_Witness ==
    /\ pc = "done"
    /\ pwerr = ErrClosedPipe
    /\ pending # <<>>
    /\ Len(rcs) = 2
    /\ OpenHandles = {}

\* the consumer holds the whole stream and Read has returned io.EOF
Drained == lastRead.err = EOF /\ got = ConcatData(ops, Len(ops))

\* C7: with a consumer that never calls AwaitBoundary, the producer is never
\* stuck at publishing a boundary (one of the two cases of overwriteLatest's
\* select is always ready), and when no source is faulty the consumer's Reads
\* reach io.EOF with b1 || ... || bN delivered, unless the consumer closes the
\* reader first.
C7_ReadOnlyConsumer ==
    /\ [](pc = "publish" => overwriteLatest(boundary, meta) # {})
    /\ (NoFaults ~> (Drained \/ ~ReaderOpen))

\* two boundaries were published, none was awaited, and the stream was read to
\* its end
C7_Witness ==
    /\ Len(pubLog) = 2
    /\ awaited = <<>>
    /\ ~lastAwait.called
    /\ ReaderOpen
    /\ Drained
    /\ got # <<>>

\* C8: the bytes obtained from the sources and not yet delivered are the
\* slice the pipe writer is offering, at most one chunk; the producer reads a
\* source only when everything obtained so far has been delivered.
C8_Backpressure ==
    /\ Len(pending) <= ChunkSize
    /\ Len(obtained) - Len(got) <= ChunkSize
    /\ obtained = got \o pending
    /\ pc \in { "open", "store", "publish", "read", "check" } => obtained = got

\* the consumer took part of a chunk: the producer is still in Write, with the
\* rest of the chunk, and more of the source is left to read
C8_Witness ==
    /\ pc = "write"
    /\ pending # <<>>
    /\ Len(pending) < nRead
    /\ rcs[Len(rcs)].pos < Len(rcs[Len(rcs)].b)
    /\ got # <<>>

\* C9 as claimed: an AwaitBoundary call (context not cancelled) made after
\* Read has returned io.EOF, all sources having been read without error,
\* returns io.EOF.
C9_AwaitAfterEOF ==
    (lastAwait.called /\ lastAwait.afterEOF /\ ~lastAwait.ctxDone /\ NoFaults) =>
        lastAwait.err = EOF

\* C10 as claimed: an AwaitBoundary call with a cancelled context returns
\* context.Canceled, whatever the mailbox holds.
C10_AwaitCancelled ==
    (lastAwait.called /\ lastAwait.ctxDone) => lastAwait.err = Canceled

\* C11: with an empty source list Read returns (0, io.EOF), AwaitBoundary
\* (context not cancelled) returns io.EOF and never a boundary, and Current()
\* stays the zero SrcMeta.
C11_EmptySourceList ==
    ops = <<>> =>
        /\ Current = ZeroMeta
        /\ awaited = <<>>
        /\ (lastRead.called /\ ReaderOpen) => (lastRead.n = 0 /\ lastRead.err = EOF)
        /\ (lastAwait.called /\ ~lastAwait.ctxDone) =>
               (lastAwait.err = EOF /\ lastAwait.meta = ZeroMeta)

\* no sources: Read has returned io.EOF and AwaitBoundary has returned io.EOF
C11_Witness ==
    /\ ops = <<>>
    /\ ReaderOpen
    /\ lastRead.called
    /\ lastRead.err = EOF
    /\ lastAwait.called
    /\ ~lastAwait.ctxDone
    /\ lastAwait.err = EOF

\* the mailbox is closed and empty: AwaitBoundary with a live context can
\* only return io.EOF
MailboxAtEnd ==
    awaitReady(boundary, boundaryClosed, FALSE) =
        { [meta |-> ZeroMeta, err |-> EOF, recv |-> FALSE] }

\* C13: Close never waits for the producer; once the reader is closed a
\* producer that is handing off a chunk fails at once, and every producer
\* ends with its source handle closed and the boundary mailbox closed, so
\* that AwaitBoundary returns end-of-stream.
C13_CloseFailsFast ==
    /\ [](ENABLED Close)
    /\ []((~ReaderOpen /\ pc = "write" /\ pending # <<>>) => ENABLED WriteFail)
    /\ (~ReaderOpen) ~> (pc = "done" /\ OpenHandles = {} /\ MailboxAtEnd)

\* the consumer closed the reader while the producer was handing off a chunk:
\* the producer has failed in Write, closed its handle and finished
C13_Witness ==
    /\ pwerr = ErrClosedPipe
    /\ pc = "done"
    /\ OpenHandles = {}
    /\ MailboxAtEnd
    /\ rcs # <<>>
    /\ Len(got) < Len(obtained)

\* index in the source list of the source called name
SrcIndex(name) == CHOOSE k \in 1..Len(ops) : ops[k].name = name

\* C14: in the sequence of values stored into m.current, ByteOffset is 0
\* exactly at the value that begins a new source, does not decrease while the
\* source stays the same, and the source never moves backwards in the list.
C14_OffsetsPerSource ==
    \A i \in 1..Len(curLog) :
        /\ (curLog[i].ByteOffset = 0) <=>
               (i = 1 \/ curLog[i].Name # curLog[i - 1].Name)
        /\ i > 1 =>
               /\ SrcIndex(curLog[i].Name) >= SrcIndex(curLog[i - 1].Name)
               /\ curLog[i].Name = curLog[i - 1].Name =>
                      curLog[i].ByteOffset >= curLog[i - 1].ByteOffset

\* the second source has been handed off in two chunks: four or more values
\* stored, the last one past the first chunk of the second source
C14_Witness ==
    /\ Len(ops) >= 2
    /\ Len(curLog) >= 4
    /\ curLog[Len(curLog)].Name = ops[2].name
    /\ curLog[Len(curLog)].ByteOffset > ChunkSize
    /\ curLog[Len(curLog) - 1].Name = ops[2].name
    /\ curLog[Len(curLog) - 1].ByteOffset > 0

\* C15: once Read has returned io.EOF for a non-empty source list, Current()
\* is {name of the last source, number of bytes of the last source}.
C15_CurrentAtEOF ==
    (lastRead.called /\ lastRead.err = EOF /\ ops # <<>>) =>
        Current = SrcMeta(ops[Len(ops)].name, Len(ops[Len(ops)].data))

\* Read has returned io.EOF after a last source of more than one chunk
C15_Witness ==
    /\ lastRead.called
    /\ lastRead.err = EOF
    /\ Len(ops) = 2
    /\ Len(ops[2].data) > ChunkSize
    /\ got = ConcatData(ops, 2)

\* ------------------------------------------------------ decoder claims
YieldedRows == [i \in 1..Len(yielded) |-> yielded[i].row]

\* the records of all sources, in stream order
RECURSIVE StreamRows(_)
StreamRows(s) == IF s = <<>> THEN <<>> ELSE Head(s).rows \o StreamRows(Tail(s))

\* the records behind the first record of each source
RECURSIVE RemainingRows(_)
RemainingRows(s) ==
    IF s = <<>> THEN <<>>
    ELSE (IF Head(s).rows = <<>> THEN <<>> ELSE Tail(Head(s).rows)) \o RemainingRows(Tail(s))

AllStartWithHeader ==
    \A k \in 1..Len(ops) : ops[k].rows # <<>> /\ ops[k].rows[1] = HeaderRow

\* Next has returned false at the end of the stream, without error
Exhausted == dpc = "next" /\ nextResult = "false" /\ it.decoderError = NoErr

\* C16 as claimed: with an inferred header and N >= 1 sources that each begin
\* with the canonical header, the decoder yields exactly the remaining records
\* of all sources, in source order, and yields no header row.
C16_HeaderDeduplication ==
    (optHeader = <<>> /\ ops # <<>> /\ AllStartWithHeader /\ NoFaults) =>
        /\ IsPrefix(YieldedRows, RemainingRows(ops))
        /\ Exhausted => YieldedRows = RemainingRows(ops)

NotHeader(row) == row # it.header

\* the records the decoder is to yield or to discard: all but an inferred header
DataRows == IF optHeader = <<>> THEN Tail(StreamRows(ops)) ELSE StreamRows(ops)

\* C17 as claimed: a first record of a later source that has the canonical
\* field count and differs from the canonical header is yielded exactly once
\* (or is the pending record), records are yielded in stream order, and the
\* records of that source behind it are yielded as well, none is discarded.
C17_MismatchingFirstRowKept ==
    /\ \A i, k \in 1..Len(yielded) : i < k => yielded[i].at < yielded[k].at
    /\ \A j \in 1..Len(parsedLog) :
          LET e == parsedLog[j]
          IN (e.first /\ e.src >= 2 /\ ~e.hdr
              /\ Len(e.row) = Len(it.header) /\ NotHeader(e.row)) =>
                /\ \/ Cardinality({ i \in 1..Len(yielded) :
                                      yielded[i].at = e.at /\ yielded[i].row = e.row }) = 1
                   \/ (j = Len(parsedLog) /\ it.hasPending /\ it.pending = e.row
                       /\ \A i \in 1..Len(yielded) : yielded[i].at # e.at)
                /\ \A k \in (j + 1)..Len(parsedLog) :
                      parsedLog[k].src = e.src =>
                         \/ \E i \in 1..Len(yielded) :
                               /\ yielded[i].at = parsedLog[k].at
                               /\ yielded[i].row = parsedLog[k].row
                         \/ (k = Len(parsedLog) /\ it.hasPending
                             /\ it.pending = parsedLog[k].row)

\* C18 as claimed: the first record of a source is never yielded when it
\* equals the canonical header, whether the header is inferred or explicit.
C18_HeaderFirstRowDiscarded ==
    \A i \in 1..Len(yielded) :
        ~(yielded[i].first /\ yielded[i].row = it.header)

\* C19 as claimed: a record that equals the canonical header and is not the
\* first record of its source is yielded (or is the pending record).
C19_HeaderLikeDataRowKept ==
    \A j \in 1..Len(parsedLog) :
        LET e == parsedLog[j]
        IN (~e.hdr /\ ~e.first /\ e.row = it.header) =>
              \/ \E i \in 1..Len(yielded) : yielded[i].at = e.at
              \/ (j = Len(parsedLog) /\ it.hasPending)

\* C20 as claimed: every record yielded carries the name of the source whose
\* bytes produced it.
C20_MetaNamesSource ==
    \A i \in 1..Len(yielded) : yielded[i].meta.Name = ops[yielded[i].src].name

\* what the consumer can observe of the stream and of the iterator: the
\* result of a Read of the closed stream, Current(), the result of
\* AwaitBoundary, and the state Next, Record and Err work on
Observable ==
    << pdone, IF pdone THEN readCloseError ELSE NoErr, Current,
       awaitReady(boundary, boundaryClosed, FALSE), dpc, csvReader, it, decodeErr,
       nextResult, yielded, got >>

\* C12: Close is idempotent: a Close of the iterator (which closes the
\* multiplexer) that follows an earlier Close changes nothing the consumer can
\* observe through Read, Current, AwaitBoundary, Next, Record or Err.
C12_CloseIdempotent ==
    [][(closeCalls >= 1 /\ ItClose) => Observable' = Observable]_vars

\* Close was called twice while records were left; Next had yielded a record
\* before and reports the closed stream afterwards
C12_Witness ==
    /\ closeCalls >= 2
    /\ yielded # <<>>
    /\ it.decoderError = ErrClosedPipe
    /\ nextResult = "false"

\* a source without records stands between two sources that hold records
GapBetween ==
    \E k \in 1..Len(ops) :
        /\ ops[k].rows = <<>>
        /\ \E j \in 1..(k - 1) : ops[j].rows # <<>>
        /\ \E j \in (k + 1)..Len(ops) : ops[j].rows # <<>>

\* the canonical header of a session over a stream that holds records
CanonicalHeader == IF optHeader = <<>> THEN StreamRows(ops)[1] ELSE optHeader

\* the records of the sources without the header each source may begin with
RECURSIVE SourceData(_, _)
SourceData(s, hdr) ==
    IF s = <<>> THEN <<>>
    ELSE (IF Head(s).rows # <<>> /\ Head(s).rows[1] = hdr
          THEN Tail(Head(s).rows) ELSE Head(s).rows) \o SourceData(Tail(s), hdr)

\* C21 as claimed: a source with zero rows between two non-empty sources
\* causes no error and no extra or missing record: the decoder fails neither
\* in Decode nor in Next, yields the data rows of the surrounding sources in
\* order, and at clean exhaustion has yielded exactly those.
C21_EmptySourceTolerated ==
    (GapBetween /\ NoFaults) =>
        /\ decodeErr = NoErr
        /\ it.decoderError = NoErr
        /\ IsPrefix(YieldedRows, SourceData(ops, CanonicalHeader))
        /\ Exhausted => YieldedRows = SourceData(ops, CanonicalHeader)

\* C21 where no record behind the canonical header equals it
C21_Scoped ==
    (GapBetween /\ \A k \in 1..Len(DataRows) : DataRows[k] # CanonicalHeader) =>
        C21_EmptySourceTolerated

\* a name stands at two positions of the header
HasDuplicate(h) == \E i \in 1..Len(h) : \E j \in (i + 1)..Len(h) : h[i] = h[j]

\* Decode has not returned an iterator and no record was produced
NoIterator == dpc # "next" /\ it = NilIterator /\ yielded = <<>>

\* C22: a canonical header that holds the same name twice, configured or
\* inferred from the first record, makes Decode fail with the malformed
\* header error: no iterator is returned and no record is ever produced.
C22_DuplicateHeaderRejected ==
    /\ (optHeader # <<>> /\ HasDuplicate(optHeader)) =>
          /\ NoIterator
          /\ dpc = "failed" => decodeErr = MalformedHeader
    /\ (optHeader = <<>> /\ parsedLog # <<>> /\ HasDuplicate(parsedLog[1].row)) =>
          /\ NoIterator
          /\ dpc = "failed"
          /\ decodeErr = MalformedHeader

\* Decode has failed on a duplicate name in a header inferred from the
\* stream, with records left behind the header
C22_Witness ==
    /\ optHeader = <<>>
    /\ dpc = "failed"
    /\ decodeErr = MalformedHeader
    /\ parsedLog # <<>> /\ parsedLog[1].row = DupRow
    /\ Len(StreamRows(ops)) > 1

\* C23: without a configured header, a stream that holds no record at all (an
\* empty source list, or nothing but empty sources) makes Decode fail with the
\* error "unable to infer header from first record" wrapping io.EOF: no
\* iterator is returned, and no record is read or produced.
C23_NoRowNoHeader ==
    (optHeader = <<>> /\ StreamRows(ops) = <<>> /\ NoFaults) =>
        /\ NoIterator
        /\ parsedLog = <<>>
        /\ decodeErr \in { NoErr, InferError(EOF) }
        /\ dpc = "failed" <=> decodeErr = InferError(EOF)

\* Decode has failed to infer a header from a list of empty sources
C23_Witness ==
    /\ optHeader = <<>>
    /\ ops # <<>> /\ StreamRows(ops) = <<>> /\ NoFaults
    /\ dpc = "failed"
    /\ decodeErr = InferError(EOF)
    /\ it = NilIterator

\* position among the records behind the header of the first one whose number
\* of fields differs from the header's, or 0
FirstBad ==
    LET S == { k \in 1..Len(DataRows) : Len(DataRows[k]) # Len(CanonicalHeader) }
    IN IF S = {} THEN 0 ELSE CHOOSE k \in S : \A j \in S : k <= j

\* the state part of C24
FailedState ==
    dpc = "next" =>
        /\ \A i \in 1..Len(yielded) : Len(yielded[i].row) = Len(it.header)
        /\ FirstBad # 0 => (Len(yielded) < FirstBad /\ ~Exhausted)
        /\ it.decoderError = ErrFieldCount => FirstBad # 0
        /\ it.decoderError # NoErr => nextResult = "false"

\* C24: a record whose number of fields differs from the canonical header's,
\* the first record of a later source included, moves the iterator to a
\* sticky failed state: the offending record and the records behind it are
\* never yielded, the Next that read it and every later Next return false,
\* and Err keeps returning the same error.
C24_ParseErrorSticky ==
    /\ []FailedState
    /\ [][it.decoderError # NoErr =>
            /\ it' = it
            /\ yielded' = yielded
            /\ nextResult' = "false"]_vars

\* Next has failed on the first record of a later source, whose number of
\* fields is not the header's, with a record left behind it
C24_Witness ==
    /\ dpc = "next"
    /\ it.decoderError = ErrFieldCount
    /\ nextResult = "false"
    /\ Len(ops) >= 2
    /\ FirstBad = Len(ops[1].rows) + (IF optHeader = <<>> THEN 0 ELSE 1)
    /\ Len(DataRows) > FirstBad
    /\ Len(yielded) < FirstBad

\* Next has returned false and Err returns an error
Failed == dpc = "next" /\ nextResult = "false" /\ it.decoderError # NoErr

\* every source ends cleanly and every record has the header's length
CleanStream == NoFaults /\ FirstBad = 0

\* over a clean stream Next eventually returns false with Err() == nil
CleanEnds == (dpc = "next" /\ CleanStream) ~> Exhausted

\* over a stream that is aborted or holds a record that fails to parse, Next
\* eventually returns false with Err() # nil
FaultFails == (dpc = "next" /\ ~CleanStream) ~> Failed

\* clean exhaustion is reported over clean streams only
ExhaustedIsClean == Exhausted => CleanStream

\* clean exhaustion stays on every later Next
ExhaustedStays == [][Exhausted => Exhausted']_vars

\* C25 as claimed: clean exhaustion and fatal failure are distinguishable and
\* stable. Over a stream whose sources all end cleanly and whose records all
\* parse, Next eventually returns false with Err() == nil, and stays so on
\* every later Next; over a stream the multiplexer aborts, or with a record
\* that fails to parse, Next eventually returns false with Err() # nil, and
\* never reports clean exhaustion.
C25_ExhaustionOrFailure ==
    /\ CleanEnds
    /\ FaultFails
    /\ []ExhaustedIsClean
    /\ ExhaustedStays

\* the first part of C25 for the sessions that have a source or infer the
\* header
CleanEndsScoped ==
    (dpc = "next" /\ CleanStream /\ (optHeader = <<>> \/ ops # <<>>)) ~> Exhausted

\* the record views Next has handed out, and the one Record() returns now
Views ==
    { sliceExtractor(yielded[i].row, yielded[i].meta) : i \in 1..Len(yielded) }
        \cup { Record }

\* C26: every record yielded has exactly as many fields as the canonical
\* header, so for every record and every header position i, ByName(header[i])
\* returns what ByIndex(i) returns, with ok == true, and nothing indexes out
\* of range.
C26_NameMatchesIndex ==
    dpc = "next" =>
        \A s \in Views :
            /\ ExtLen(s) = Len(it.header)
            /\ \A i \in 0..(Len(it.header) - 1) :
                  /\ ByIndex(s, i).ok
                  /\ ByName(s, it.header[i + 1]) = ByIndex(s, i)

\* a record of two fields was yielded under a header of two names, and its
\* second field differs from the first
C26_Witness ==
    /\ dpc = "next"
    /\ nextResult = "true"
    /\ Len(it.header) = 2
    /\ Record.current = WideRow
    /\ ByName(Record, it.header[2]) = Found(<<ByteX>>)

\* names a caller may ask for, the empty one included
FieldNames == { <<>>, <<ByteH>>, <<ByteX>>, <<ByteX, ByteX>> }

HeaderNames == { it.header[i] : i \in 1..Len(it.header) }

\* C27: the record view is total and read-only: ByIndex(i) with i < 0 or
\* i >= Len() and ByName(n) with n not in the canonical header return
\* ("", false) without panicking, and Names() returns the canonical header
\* for every record of the session, also after the caller has written into a
\* slice Names() returned earlier.
C27_ViewTotalReadOnly ==
    dpc = "next" =>
        \A s \in Views :
            /\ \A i \in { -1, ExtLen(s), ExtLen(s) + 1 } : ByIndex(s, i) = NotFound
            /\ \A n \in FieldNames \ HeaderNames : ByName(s, n) = NotFound
            /\ Names(s).elems = CanonicalHeader

\* the caller has written into a slice Names() returned, and two records
\* have been yielded
C27_Witness ==
    /\ dpc = "next"
    /\ callerNames # <<>>
    /\ callerNames # Names(Record).elems
    /\ nextResult = "true"
    /\ Len(yielded) >= 2

\* the mapper has returned an error for the record it was called with last
MapperFailed == mapLog # <<>> /\ mapLog[Len(mapLog)] \in mapFn.failsOn

\* the state part of C28
MapErrorState ==
    /\ \A j \in 1..Len(mapLog) : j <= inner.idx /\ mapLog[j] = inner.recs[j]
    /\ Len(mapLog) = inner.idx
    /\ MapperFailed <=> mit.err # NoErr
    /\ MapperFailed =>
          /\ mNext = "false"
          /\ MapErr = boom
          /\ \A j \in 1..(Len(mapLog) - 1) : mapLog[j] \notin mapFn.failsOn

\* C28: when the mapper returns an error for a record, that Next returns
\* false and Err returns the mapper's error; the mapper has been called
\* exactly once for that record (once for each record the inner iterator has
\* handed out), and every later Next returns false without calling the inner
\* iterator's Next or the mapper again.
C28_MapErrorStops ==
    /\ []MapErrorState
    /\ [][MapperFailed =>
            /\ inner'.nextCalls = inner.nextCalls
            /\ inner'.idx = inner.idx
            /\ mapLog' = mapLog
            /\ mapped' = mapped
            /\ mit'.err = mit.err
            /\ mNext' = "false"]_vars

\* the mapper has failed on the second record, with records left in the
\* inner iterator
C28_Witness ==
    /\ tpc = "iterate"
    /\ mit.err = boom
    /\ mNext = "false"
    /\ Len(mapLog) = 2
    /\ Len(mapped) = 1
    /\ inner.idx < Len(inner.recs)

\* C29: Transform with a nil mapper returns a nil iterator and the error
\* "transform: Mapper[T] must not be nil", and the decoder's Decode is not
\* called.
C29_NilMapperRejected ==
    mapFn.nil =>
        /\ tpc \in { "absent", "transform", "failed" }
        /\ tpc = "failed" => transformErr = NilMapperError
        /\ mit = NilMapped
        /\ dec.called = 0
        /\ inner.nextCalls = 0

\* Transform has returned the nil mapper error over a decoder that would
\* have returned an iterator with records
C29_Witness ==
    /\ mapFn.nil
    /\ tpc = "failed"
    /\ transformErr = NilMapperError
    /\ dec.err = NoErr
    /\ inner.recs # <<>>

\* the values the mapper of the tests returns for the records
MappedOf(recs) == [j \in 1..Len(recs) |-> callMapFn(mapFn, recs[j]).val]

\* no record of the inner iterator makes the mapper fail
MapperTotal == \A j \in 1..Len(inner.recs) : inner.recs[j] \notin mapFn.failsOn

\* the state part of C30
MappedInOrder ==
    (tpc = "iterate" /\ MapperTotal) =>
        /\ Len(mapped) = inner.idx
        /\ mapped = MappedOf(SubSeq(inner.recs, 1, inner.idx))
        /\ (mNext = "false" /\ ~inner.closed) =>
              /\ inner.idx = Len(inner.recs)
              /\ MapErr = inner.err

\* C30: the mapped iterator yields exactly one mapped value per inner record,
\* in order, and then Next returns false with the inner iterator's Err (nil
\* when the inner iterator ended cleanly); Close on the mapped iterator
\* closes the inner iterator, and after Close every Next returns false
\* without advancing the inner iterator.
C30_MapsInOrderAndCloses ==
    /\ []MappedInOrder
    /\ [][MapClose => inner'.closed]_vars
    /\ [][(inner.closed /\ MapNextStep) =>
            /\ mNext' = "false"
            /\ inner' = inner
            /\ mapped' = mapped]_vars

\* Close was called with records left, and a Next after it has returned false
C30_Witness ==
    /\ tpc = "iterate"
    /\ inner.closed
    /\ inner.err = NoErr
    /\ MapperTotal
    /\ mNext = "false"
    /\ Len(mapped) = 2
    /\ inner.idx < Len(inner.recs)

\* ----------------------------------------------------- registry claims
\* a scheme has one factory at most
RegistryFunctional ==
    \A e1, e2 \in openerRegistry : e1[1] = e2[1] => e1 = e2

\* what the calls that have passed the registry have got
RegistryResults ==
    \A k \in 1..Len(regProcs) :
        LET c == regProcs[k]
        IN /\ (c.op = "register" /\ c.pc \in { "unlock", "done" }) =>
                 IF c.err = NoErr
                 THEN << c.scheme, factoryOf(k) >> \in openerRegistry
                 ELSE /\ c.err = AlreadyRegistered(c.scheme)
                      /\ << c.scheme, factoryOf(k) >> \notin openerRegistry
           /\ (c.op = "lookup" /\ c.pc = "done" /\ c.err = NoErr) =>
                 /\ << c.scheme, c.f >> \in openerRegistry
                 /\ c.opener = << c.f, c.spec >>

\* C31: registering an opener factory for a scheme that already has one
\* returns an error and leaves the registry unchanged: an entry of the
\* registry is never replaced or removed, a RegisterOpener call returns nil
\* exactly when its factory became the entry of its scheme, and every
\* OpenerFromSpec that finds a factory uses the entry of the scheme, with
\* registrations and lookups running concurrently.
C31_DuplicateRegistration ==
    /\ [](RegistryFunctional /\ RegistryResults)
    /\ [][openerRegistry \subseteq openerRegistry']_vars

\* two goroutines have registered a factory for the same scheme: one call
\* returned nil, the other the error
C31_Witness ==
    /\ Len(regProcs) >= 2
    /\ \E j, k \in 1..Len(regProcs) :
          /\ regProcs[j].op = "register" /\ regProcs[k].op = "register"
          /\ regProcs[j].scheme = regProcs[k].scheme
          /\ regProcs[j].pc = "done" /\ regProcs[k].pc = "done"
          /\ regProcs[j].err = NoErr
          /\ regProcs[k].err # NoErr
          /\ registryGet(regProcs[k].scheme).f = factoryOf(j)
\* --------------------------------------------------- mailbox claims
\* the positions in the source list of the boundaries AwaitBoundary returned
AwaitedPositions == [j \in 1..Len(awaited) |-> SrcIndex(awaited[j].Name)]

\* C32: the boundary mailbox holds at most one value, and that value is the
\* boundary published last; the boundaries AwaitBoundary has returned are
\* published boundaries with ByteOffset 0, in strictly increasing position of
\* the source list (no repeat, no older boundary after a newer one).
C32_MailboxCoalesces ==
    /\ Len(boundary) <= 1
    /\ boundary # <<>> => (pubLog # <<>> /\ boundary[1] = pubLog[Len(pubLog)])
    /\ \A j \in 1..Len(awaited) :
        /\ awaited[j].ByteOffset = 0
        /\ \E k \in 1..Len(pubLog) : awaited[j] = pubLog[k]
        /\ awaited[j] = SrcMeta(ops[AwaitedPositions[j]].name, 0)
    /\ \A j \in 1..(Len(awaited) - 1) : AwaitedPositions[j] < AwaitedPositions[j + 1]

\* the boundary of the first source was overwritten before anyone took it:
\* the only boundary AwaitBoundary has returned is that of the second source
C32_Witness ==
    /\ Len(ops) = 2
    /\ Len(pubLog) = 2
    /\ awaited = << SrcMeta(ops[2].name, 0) >>
    /\ lastAwait.called
    /\ lastAwait.meta = pubLog[2]

\* the producer goroutine has returned and its deferred calls have run
ProducerFinished == pc = "done"

\* C33: when the producer goroutine has finished (sources exhausted, open
\* error, read error or a failed hand-off after Close) the mailbox is empty and
\* closed, and it is closed only then; an AwaitBoundary call made from then on
\* has a ready case, returns no boundary, and returns io.EOF (a call whose own
\* context is cancelled returns io.EOF or that context's error); once closed
\* the mailbox stays closed and empty and nothing more is published.
C33_ClosedAfterProducer ==
    /\ [](ProducerFinished =>
            /\ boundary = <<>>
            /\ boundaryClosed
            /\ \A c \in BOOLEAN : awaitReady(boundary, boundaryClosed, c) # {})
    /\ [](boundaryClosed => ProducerFinished)
    /\ [][(ProducerFinished /\ AwaitBoundary(FALSE)) =>
            /\ lastAwait'.err = EOF
            /\ lastAwait'.meta = ZeroMeta
            /\ awaited' = awaited]_vars
    /\ [][(ProducerFinished /\ AwaitBoundary(TRUE)) =>
            /\ lastAwait'.err \in { EOF, Canceled }
            /\ lastAwait'.meta = ZeroMeta
            /\ awaited' = awaited]_vars
    /\ [][boundaryClosed =>
            /\ boundaryClosed'
            /\ boundary' = <<>>
            /\ pubLog' = pubLog]_vars

\* C33 as claimed: every AwaitBoundary call made after the producer has
\* finished, whatever its context, returns io.EOF.
C33_EveryAwaitEOF ==
    [][(ProducerFinished /\ \E c \in BOOLEAN : AwaitBoundary(c)) =>
        lastAwait'.err = EOF]_vars

\* the producer stopped on a failed hand-off after Close; the boundary it had
\* published was drained unread, and AwaitBoundary (live context) got io.EOF
C33_Witness ==
    /\ ProducerFinished
    /\ ~ReaderOpen
    /\ pubLog # <<>>
    /\ awaited = <<>>
    /\ lastAwait.called
    /\ ~lastAwait.ctxDone
    /\ lastAwait.err = EOF

\* --------------------------------------------- source-start claims
\* the record parsedLog[j] was read by Next and neither yielded nor held back
Dropped(j) ==
    /\ ~parsedLog[j].hdr
    /\ \A i \in 1..Len(yielded) : yielded[i].at # parsedLog[j].at
    /\ ~(j = Len(parsedLog) /\ it.hasPending)

\* parsedLog[j] is the first record of its source, equal to the canonical
\* header and dropped, and the record behind it belongs to the same source
HeaderDroppedBefore(j) ==
    /\ j > 1
    /\ parsedLog[j - 1].first
    /\ parsedLog[j - 1].row = it.header
    /\ Dropped(j - 1)
    /\ parsedLog[j].src = parsedLog[j - 1].src

\* this pass of Next reads a record at a source start and the record equals
\* the canonical header
DropsHeaderNow ==
    /\ dpc = "next"
    /\ ~stickyError(it)
    /\ Len(it.header) > 0
    /\ ~it.hasPending
    /\ recordReady
    /\ csvRead.err = NoErr
    /\ it.atStart \/ isSourceStart(it.lastSourceMeta, Current)
    /\ isheader(it.header, csvRead.row)

\* C34 as claimed: the record that follows a dropped header-identical first
\* record of the same source is classified again, so it is dropped too when
\* it equals the canonical header.
C34_StaysAtSourceStart ==
    \A j \in 1..Len(parsedLog) :
        (HeaderDroppedBefore(j) /\ parsedLog[j].row = it.header) =>
            \A i \in 1..Len(yielded) : yielded[i].at # parsedLog[j].at

\* C34 amended: dropping a header-identical first record ends the source
\* start: Next clears atStart and keeps the SrcMeta it sampled as the last
\* one seen, and atStart is never set when a pass of Next begins (but after a
\* parse error at a source start); the next record is classified only if the
\* SrcMeta sampled behind it shows a source start again, and is yielded as it
\* is, header-identical or not, otherwise.
C34_LeavesSourceStart ==
    /\ [](it.atStart => it.decoderError # NoErr)
    /\ [][(DropsHeaderNow /\ NextStep) =>
            /\ ~it'.atStart
            /\ it'.lastSourceMeta = Current
            /\ ~it'.hasPending
            /\ yielded' = yielded]_vars
    /\ [][(NextStep /\ ~stickyError(it) /\ Len(it.header) > 0 /\ ~it.hasPending
            /\ csvRead.err = NoErr
            /\ ~isSourceStart(it.lastSourceMeta, Current)) =>
            /\ Len(yielded') = Len(yielded) + 1
            /\ yielded'[Len(yielded')].row = csvRead.row
            /\ it'.current = csvRead.row]_vars

\* explicit header: the first record of a source equalled the header and was
\* dropped, and the next record of that source, header-identical too, was
\* yielded
C34_Witness ==
    /\ optHeader # <<>>
    /\ \E j \in 1..Len(parsedLog) :
        /\ HeaderDroppedBefore(j)
        /\ parsedLog[j].row = it.header
        /\ \E i \in 1..Len(yielded) :
              yielded[i].at = parsedLog[j].at /\ yielded[i].row = it.header

\* this pass of Next reads a record at a source start and the record differs
\* from the canonical header
PushesBackNow ==
    /\ dpc = "next"
    /\ ~stickyError(it)
    /\ Len(it.header) > 0
    /\ ~it.hasPending
    /\ recordReady
    /\ csvRead.err = NoErr
    /\ it.atStart \/ isSourceStart(it.lastSourceMeta, Current)
    /\ ~isheader(it.header, csvRead.row)

\* the records Next has read that it yielded or that differ from the header,
\* but for the one held back
KeptRecords ==
    SelectSeq(parsedLog,
              LAMBDA e : /\ ~e.hdr
                         /\ \/ e.row # it.header
                            \/ \E i \in 1..Len(yielded) : yielded[i].at = e.at
                         /\ ~(it.hasPending /\ e.at = parsedLog[Len(parsedLog)].at))

\* C35: a record held back at a source start is held with the SrcMeta sampled
\* when it was classified; the next pass of Next serves it with that SrcMeta,
\* reads nothing from the stream and empties the slot, so it is served once;
\* the slot holds the record read last, and Next does not return while it is
\* full; the records yielded are, in order and each once, the records read
\* less the header-identical ones that were dropped.
C35_PendingServedOnce ==
    /\ [](it.hasPending =>
            /\ parsedLog # <<>>
            /\ parsedLog[Len(parsedLog)].row = it.pending
            /\ nextResult = "running"
            /\ \A i \in 1..Len(yielded) : yielded[i].at < parsedLog[Len(parsedLog)].at)
    /\ []([i \in 1..Len(yielded) |-> <<yielded[i].row, yielded[i].at>>]
            = [j \in 1..Len(KeptRecords) |-> <<KeptRecords[j].row, KeptRecords[j].at>>])
    /\ [][(PushesBackNow /\ NextStep) =>
            /\ it'.hasPending
            /\ it'.pending = csvRead.row
            /\ it'.pendingSrcMeta = Current
            /\ yielded' = yielded]_vars
    /\ [][(it.hasPending /\ ~stickyError(it) /\ NextStep) =>
            /\ ~it'.hasPending
            /\ parsedLog' = parsedLog
            /\ csvReader' = csvReader
            /\ Len(yielded') = Len(yielded) + 1
            /\ yielded'[Len(yielded')].row = it.pending
            /\ yielded'[Len(yielded')].meta = it.pendingSrcMeta
            /\ yielded'[Len(yielded')].at = parsedLog[Len(parsedLog)].at
            /\ nextResult' = "true"]_vars

\* the first record of the second source differed from the header, was held
\* back and has been served with the SrcMeta it was held with; the stream
\* still has a record to give
C35_Witness ==
    /\ nextResult = "true"
    /\ ~it.hasPending
    /\ yielded # <<>>
    /\ yielded[Len(yielded)].first
    /\ yielded[Len(yielded)].src = 2
    /\ yielded[Len(yielded)].row = it.pending
    /\ yielded[Len(yielded)].meta = it.pendingSrcMeta
    /\ it.current = it.pending
    /\ it.currentSrcMeta = it.pendingSrcMeta
    /\ it.lastSourceMeta # it.pendingSrcMeta
    /\ Len(yielded) >= 2

\* ------------------------------------------------ termination of Next
\* a call of Next is under way
NextRunning == dpc = "next" /\ nextResult = "running"

\* C36 as claimed: every call of Next returns, and over an empty source list
\* it returns false with Err() == nil.
C36_NextTerminates ==
    /\ NextRunning ~> (dpc = "next" /\ nextResult \in { "true", "false" })
    /\ (dpc = "next" /\ ops = <<>>) ~> (nextResult = "false" /\ it.decoderError = NoErr)

\* ------------------------------------------------------ determinism
\* C37 as claimed: a run over the same sources with the same options ends
\* with the outcome of the run before it: the same error of Decode, the same
\* records with the same Meta().Name, in the same order, and the same Err().
C37_SchedulingIndependent ==
    (RunEnded /\ priorRun # <<>>) => Outcome = priorRun[1]

\* ------------------------------------------------- rows and sources
\* C38 as claimed: every record the csv reader hands out is a record of one
\* source: the records read are, in order, the records of the sources, also
\* when a payload ends without a line terminator.
C38_RowsWithinSource ==
    IsPrefix([j \in 1..Len(parsedLog) |-> parsedLog[j].row], StreamRows(ops))

\* ------------------------------------------------------ cancellation
\* C39 as claimed: once the context given to NewMuxReader is cancelled the
\* multiplexer reads no further byte of the current source and opens no later
\* source, and a stream that had not ended by then does not end with io.EOF.
C39_CancelStopsStream ==
    /\ [][ctxCanceled => obtained' = obtained]_vars
    /\ [][ctxCanceled => Len(rcs') = Len(rcs)]_vars
    /\ [][(ctxCanceled /\ pwerr = NoErr) => pwerr' # EOF]_vars

\* the goroutine of Decode has closed the stream
StreamClosed == decCtx = "closed"

\* C40: when Decode's context is cancelled the goroutine Decode started
\* closes the multiplexer, whatever the consumer is doing. From then on the
\* consumer gets no further byte; a producer with a chunk to hand off fails
\* there and then, and the producer ends; every read of the stream by Next
\* returns io.ErrClosedPipe, so that a Next that has to read returns false
\* with Err() # nil; Next reports clean exhaustion only if the end of the
\* stream had been read before the close; and Next does return.
C40_CancelClosesStream ==
    /\ (dpc = "next" /\ decCtx = "canceled") ~> StreamClosed
    /\ [](StreamClosed => (pdone /\ prerr = ErrClosedPipe))
    /\ [][StreamClosed => got' = got]_vars
    /\ [][(StreamClosed /\ pc = "write" /\ pending # <<>> /\ pc' # pc) =>
            (pc' = "pwClose" /\ pwerr' = ErrClosedPipe)]_vars
    /\ StreamClosed ~> (pc = "done")
    /\ [][(StreamClosed /\ CsvFill) => csvReader'.err = ErrClosedPipe]_vars
    /\ [][(StreamClosed /\ csvReader.err = ErrClosedPipe /\ NextStep) =>
            /\ nextResult' = "false"
            /\ it'.decoderError # NoErr
            /\ yielded' = yielded]_vars
    /\ [][(StreamClosed /\ ~Exhausted /\ Exhausted') => csvReader.err = EOF]_vars
    /\ StreamClosed ~> (dpc = "next" /\ nextResult = "false")

\* the stream was closed while the producer had a chunk to hand off: the
\* producer has ended on the failed Write, and Next, after a record it had
\* yielded, has returned false with io.ErrClosedPipe
C40_Witness ==
    /\ StreamClosed
    /\ pc = "done"
    /\ pwerr = ErrClosedPipe
    /\ Len(obtained) > Len(got)
    /\ yielded # <<>>
    /\ dpc = "next"
    /\ nextResult = "false"
    /\ it.decoderError = ErrClosedPipe

====
